---- MODULE Spec2Model ----
(***************************************************************************)
(* A model of the cashflow ledger core: the SQLite ledger store            *)
(* (src/src/core/db.ts), the reconciliation engine (src/src/core/sync.ts), *)
(* the classification engine (src/src/core/tags.ts), the budget engine     *)
(* (core/budgets.ts), regex search (src/src/core/search.ts), the burn      *)
(* report (core/reports.ts), the unlink command (src/src/cli.ts), the      *)
(* derived fields of a transaction (src/src/types/index.ts) and the sync   *)
(* tool of the MCP server (src/src/mcp.ts).                                *)
(*                                                                         *)
(* Tables are sets of rows; a TEXT value is a sequence of symbols, SQL     *)
(* NULL / JS null is the one-symbol sequence Null, whose symbol no text    *)
(* uses.  Ids are strings, amounts and timestamps are integers.  The        *)
(* full-text index is the bag of entries its triggers have inserted and     *)
(* not deleted; the database is a fresh one, created by initDb's SCHEMA.    *)
(* An amount is a whole number of tenths of a cent, a fraction (a budget's  *)
(* alert_threshold, percent_used) a whole number of thousandths, a date is  *)
(* 10 * month + day; sums and quotients are exact.                          *)
(***************************************************************************)
EXTENDS Integers, Sequences, FiniteSets, Bags, TLC

VARIABLES
    db,       \* the SQLite database: its tables
    now,      \* the wall clock datetime('now') reads
    sync,     \* the locals of the running syncAll / syncItem invocation
    last      \* the last operation that returned or threw, and its outcome

vars == <<db, now, sync, last>>

\* ------------------------------------------------------------------ bounds

\* longest list handed to upsertAccounts / upsertTransactions / removeTransactions
MaxBatch == 2
\* number of syncAll invocations (each reads a later clock)
MaxSyncs == 3
\* furthest position of the upstream feed a cursor can name
MaxCursor == 2
\* number of tag rules ever inserted (AUTOINCREMENT ids 1..MaxRules)
MaxRules == 2

\* ------------------------------------------------------------------ values

Null == <<"NULL">>

Truthy(s) == s # Null /\ s # <<>>

RECURSIVE SeqsUpTo(_, _)
\* all sequences over S of length 0..n
SeqsUpTo(S, n) ==
    IF n = 0 THEN {<<>>}
    ELSE LET shorter == SeqsUpTo(S, n - 1)
         IN  shorter \cup {Append(s, x) : s \in shorter, x \in S}

Range(s) == {s[i] : i \in 1..Len(s)}

\* ------------------------------------------------------------------ the store

EmptyDb ==
    [accounts |-> {}, transactions |-> {}, sync_state |-> {},
     tag_rules |-> {}, rule_seq |-> 0, transactions_fts |-> EmptyBag,
     budgets |-> {}]

\* what a statement or a transaction function gives back: ok = FALSE when it threw
Ok(d) == [ok |-> TRUE, db |-> d]
Threw(d) == [ok |-> FALSE, db |-> d]

dbTransactionNoRollback(before, r) == r

\* db.transaction(fn)(): BEGIN (or SAVEPOINT when nested), run fn, COMMIT; when fn
\* throws, ROLLBACK to the state at BEGIN and rethrow
dbTransaction(before, r) ==
    IF r.ok THEN r ELSE Threw(before)

\* the columns of transactions_fts, as the triggers fill them from a row (the
\* rowid is the row's own, which ON CONFLICT DO UPDATE and UPDATE keep)
ftsEntry(r) ==
    [transaction_id |-> r.transaction_id, name |-> r.name,
     merchant_name |-> r.merchant_name, category |-> r.category, tag |-> r.tag]

\* TRIGGER transactions_ai AFTER INSERT, FOR EACH ROW
transactions_ai(d, inserted) ==
    [d EXCEPT !.transactions_fts = @ (+) SetToBag({ftsEntry(r) : r \in inserted})]

\* TRIGGER transactions_ad AFTER DELETE: the 'delete' command with the old values
transactions_ad(d, deleted) ==
    [d EXCEPT !.transactions_fts = @ (-) SetToBag({ftsEntry(r) : r \in deleted})]

transactions_auInsertOnly(d, old, new) == transactions_ai(d, new)

\* TRIGGER transactions_au AFTER UPDATE: 'delete' the old values, insert the new
transactions_au(d, old, new) ==
    transactions_ai(transactions_ad(d, old), new)

AccountIdsOf(d) == {a.account_id : a \in d.accounts}

stmtUpsertAccountAllFields(d, a, ts) ==
    IF a.name = Null
    THEN Threw(d)
    ELSE Ok([d EXCEPT !.accounts =
                {r \in @ : r.account_id # a.account_id}
                \cup {[account_id |-> a.account_id, item_id |-> a.item_id,
                       name |-> a.name, mask |-> a.mask,
                       current_balance |-> a.current_balance,
                       updated_at |-> ts]}])

\* one stmt.run of upsertAccounts: INSERT ... ON CONFLICT(account_id) DO UPDATE SET
\* every column but account_id and item_id; name is NOT NULL
stmtUpsertAccount(d, a, ts) ==
    IF a.name = Null
    THEN Threw(d)
    ELSE LET old == {r \in d.accounts : r.account_id = a.account_id}
             new == IF old = {}
                    THEN {[account_id |-> a.account_id, item_id |-> a.item_id,
                           name |-> a.name, mask |-> a.mask,
                           current_balance |-> a.current_balance,
                           updated_at |-> ts]}
                    ELSE {[r EXCEPT !.name = a.name, !.mask = a.mask,
                                    !.current_balance = a.current_balance,
                                    !.updated_at = ts] : r \in old}
         IN  Ok([d EXCEPT !.accounts = (@ \ old) \cup new])

RECURSIVE runUpsertAccounts(_, _, _)
\* the for loop of upsertAll: the statements in list order, up to the first that throws
runUpsertAccounts(d, accounts, ts) ==
    IF accounts = <<>> THEN Ok(d)
    ELSE LET r == stmtUpsertAccount(d, Head(accounts), ts)
         IN  IF r.ok THEN runUpsertAccounts(r.db, Tail(accounts), ts) ELSE r

upsertAccounts(d, accounts, ts) ==
    dbTransaction(d, runUpsertAccounts(d, accounts, ts))

stmtUpsertTransactionReplace(d, t) ==
    IF t.name = Null \/ t.account_id \notin AccountIdsOf(d)
    THEN Threw(d)
    ELSE LET old == {r \in d.transactions : r.transaction_id = t.transaction_id}
             new == {[transaction_id |-> t.transaction_id,
                      account_id |-> t.account_id, amount |-> t.amount,
                      date |-> t.date, name |-> t.name,
                      merchant_name |-> t.merchant_name,
                      pending |-> t.pending, category |-> t.category,
                      subcategory |-> t.subcategory, tag |-> Null]}
             e == [d EXCEPT !.transactions = (@ \ old) \cup new]
         IN  Ok(IF old = {} THEN transactions_ai(e, new)
                ELSE transactions_au(e, old, new))

\* one stmt.run of upsertTransactions: INSERT ... ON CONFLICT(transaction_id) DO
\* UPDATE SET every supplied column; tag is not supplied. name is NOT NULL and
\* account_id REFERENCES accounts (foreign_keys = ON)
stmtUpsertTransaction(d, t) ==
    IF t.name = Null \/ t.account_id \notin AccountIdsOf(d)
    THEN Threw(d)
    ELSE LET old == {r \in d.transactions : r.transaction_id = t.transaction_id}
             new == IF old = {}
                    THEN {[transaction_id |-> t.transaction_id,
                           account_id |-> t.account_id, amount |-> t.amount,
                           date |-> t.date, name |-> t.name,
                           merchant_name |-> t.merchant_name,
                           pending |-> t.pending, category |-> t.category,
                           subcategory |-> t.subcategory, tag |-> Null]}
                    ELSE {[r EXCEPT !.account_id = t.account_id,
                                    !.amount = t.amount, !.date = t.date,
                                    !.name = t.name,
                                    !.merchant_name = t.merchant_name,
                                    !.pending = t.pending,
                                    !.category = t.category,
                                    !.subcategory = t.subcategory] : r \in old}
             e == [d EXCEPT !.transactions = (@ \ old) \cup new]
         IN  Ok(IF old = {} THEN transactions_ai(e, new)
                ELSE transactions_au(e, old, new))

RECURSIVE runUpsertTransactions(_, _)
runUpsertTransactions(d, transactions) ==
    IF transactions = <<>> THEN Ok(d)
    ELSE LET r == stmtUpsertTransaction(d, Head(transactions))
         IN  IF r.ok THEN runUpsertTransactions(r.db, Tail(transactions)) ELSE r

upsertTransactions(d, transactions) ==
    dbTransaction(d, runUpsertTransactions(d, transactions))

\* DELETE FROM transactions WHERE transaction_id = ?, once per id, in one transaction
removeTransactions(d, transactionIds) ==
    IF transactionIds = <<>> THEN Ok(d)
    ELSE LET hit == {r \in d.transactions :
                        r.transaction_id \in Range(transactionIds)}
         IN  dbTransaction(d,
                Ok(transactions_ad([d EXCEPT !.transactions = @ \ hit], hit)))

\* SELECT COUNT(*) ... WHERE account_id IN (...), then DELETE ... when count > 0
removeTransactionsByAccount(d, accountIds) ==
    LET hit == {r \in d.transactions : r.account_id \in accountIds}
    IN  [count |-> Cardinality(hit),
         db |-> transactions_ad([d EXCEPT !.transactions = @ \ hit], hit)]

removeAccountsByItemUnchecked(d, itemId) ==
    LET rows == {a \in d.accounts : a.item_id = itemId}
        ids == {a.account_id : a \in rows}
    IN  [ok |-> TRUE, ids |-> ids, db |-> [d EXCEPT !.accounts = @ \ rows]]

\* SELECT account_id ... WHERE item_id = ?, then DELETE FROM accounts WHERE
\* item_id = ? when any; the DELETE throws while a transaction references one of them
removeAccountsByItem(d, itemId) ==
    LET rows == {a \in d.accounts : a.item_id = itemId}
        ids == {a.account_id : a \in rows}
    IN  IF \E t \in d.transactions : t.account_id \in ids
        THEN [ok |-> FALSE, ids |-> ids, db |-> d]
        ELSE [ok |-> TRUE, ids |-> ids, db |-> [d EXCEPT !.accounts = @ \ rows]]

getSyncState(d, itemId) == {s \in d.sync_state : s.item_id = itemId}

setSyncState(d, itemId, cursor, ts) ==
    [d EXCEPT !.sync_state =
        {s \in @ : s.item_id # itemId}
        \cup {[item_id |-> itemId, cursor |-> cursor, last_synced_at |-> ts]}]

removeSyncState(d, itemId) ==
    [d EXCEPT !.sync_state = {s \in @ : s.item_id # itemId}]

\* UPDATE transactions SET tag = ? WHERE transaction_id = ?
updateTransactionTag(d, transactionId, tag) ==
    LET old == {r \in d.transactions : r.transaction_id = transactionId}
        new == {[r EXCEPT !.tag = tag] : r \in old}
    IN  transactions_au([d EXCEPT !.transactions = (@ \ old) \cup new], old, new)

getAccountByIdOrMask(d, identifier) ==
    {a \in d.accounts : a.account_id = identifier \/ a.mask = identifier}

getUntaggedTransactionsAll(d) == d.transactions

\* SELECT * FROM transactions WHERE tag IS NULL
getUntaggedTransactions(d) == {r \in d.transactions : r.tag = Null}

\* INSERT INTO tag_rules (pattern, tag, priority): id is AUTOINCREMENT
insertTagRule(d, pattern, tag, priority) ==
    [d EXCEPT !.rule_seq = @ + 1,
              !.tag_rules = @ \cup {[id |-> d.rule_seq + 1, pattern |-> pattern,
                                     tag |-> tag, priority |-> priority]}]

deleteTagRule(d, id) ==
    [d EXCEPT !.tag_rules = {r \in @ : r.id # id}]

ruleBeforeLaterIdFirst(r, q) ==
    \/ r.priority > q.priority
    \/ r.priority = q.priority /\ r.id > q.id

\* ORDER BY priority DESC, id ASC
ruleBefore(r, q) ==
    \/ r.priority > q.priority
    \/ r.priority = q.priority /\ r.id < q.id

RECURSIVE sortRules(_)
sortRules(rules) ==
    IF rules = {} THEN <<>>
    ELSE LET first == CHOOSE r \in rules : \A q \in rules \ {r} : ruleBefore(r, q)
         IN  <<first>> \o sortRules(rules \ {first})

\* SELECT * FROM tag_rules ORDER BY priority DESC, id ASC
getTagRules(d) == sortRules(d.tag_rules)

\* ------------------------------------------------------------------ the store: queries

\* TransactionFilters: every property is optional; <<>> is a property left out,
\* <<v>> one supplied with value v
NoFilters ==
    [from |-> <<>>, to |-> <<>>, min |-> <<>>, max |-> <<>>, account |-> <<>>,
     pending |-> <<>>, tag |-> <<>>, limit |-> <<>>]

whereOfTagOrCategory(f, r) ==
    /\ f.from # <<>> => r.date >= f.from[1]
    /\ f.to # <<>> => r.date <= f.to[1]
    /\ f.min # <<>> => r.amount >= f.min[1]
    /\ f.max # <<>> => r.amount <= f.max[1]
    /\ (f.account # <<>> /\ f.account[1] # "") => r.account_id = f.account[1]
    /\ f.pending # <<>> => r.pending = (IF f.pending[1] THEN 1 ELSE 0)
    /\ (f.tag # <<>> /\ Truthy(f.tag[1])) =>
          r.tag = f.tag[1] \/ r.category = f.tag[1]

\* the WHERE clause getTransactions builds: one condition per filter it takes as
\* supplied, joined by AND. from, to, account and tag count as supplied when
\* truthy (a date is never the empty string), min, max and pending when not
\* undefined; a comparison with NULL is not true
whereOf(f, r) ==
    /\ f.from # <<>> => r.date >= f.from[1]
    /\ f.to # <<>> => r.date <= f.to[1]
    /\ f.min # <<>> => r.amount >= f.min[1]
    /\ f.max # <<>> => r.amount <= f.max[1]
    /\ (f.account # <<>> /\ f.account[1] # "") => r.account_id = f.account[1]
    /\ f.pending # <<>> => r.pending = (IF f.pending[1] THEN 1 ELSE 0)
    /\ (f.tag # <<>> /\ Truthy(f.tag[1])) =>
          \/ r.tag = f.tag[1]
          \/ r.tag = Null /\ r.category = f.tag[1]

\* ORDER BY date DESC: the orders SQLite may return the rows in; rows of the same
\* date come in an order the statement does not fix
orderByDateDesc(rows) ==
    {s \in [1..Cardinality(rows) -> rows] :
        /\ \A i, j \in DOMAIN s : i # j => s[i] # s[j]
        /\ \A i \in DOMAIN s : i > 1 => s[i - 1].date >= s[i].date}

\* filters.limit ? `LIMIT ${filters.limit}` : "" (a negative LIMIT is no limit)
limitClause(f, s) ==
    IF f.limit = <<>> \/ f.limit[1] = 0 THEN s
    ELSE IF f.limit[1] < 0 \/ f.limit[1] >= Len(s) THEN s
    ELSE SubSeq(s, 1, f.limit[1])

\* getTransactions(filters): the results the SELECT can give
getTransactions(d, f) ==
    {limitClause(f, s) : s \in orderByDateDesc({r \in d.transactions : whereOf(f, r)})}

\* the place of a symbol among the symbols texts are made of, in the order of their
\* code points (BINARY collation)
CodePoint(c) ==
    LET collation == <<" ", "A", "B", "[", "a", "b", "c", "m", "x", "y", "z">>
    IN  CHOOSE i \in 1..Len(collation) : collation[i] = c

\* s < t as SQLite compares TEXT
textBefore(s, t) ==
    \E k \in 1..(Len(t)) :
        /\ \A i \in 1..(k - 1) : i <= Len(s) /\ s[i] = t[i]
        /\ k > Len(s) \/ (s[k] # t[k] /\ CodePoint(s[k]) < CodePoint(t[k]))

\* INSERT INTO budgets ... ON CONFLICT(tag) DO UPDATE SET monthly_limit,
\* alert_threshold (the AUTOINCREMENT id, which nothing here reads, is left out)
upsertBudget(d, tag, monthlyLimit, alertThreshold) ==
    [d EXCEPT !.budgets =
        {b \in @ : b.tag # tag}
        \cup {[tag |-> tag, monthly_limit |-> monthlyLimit,
               alert_threshold |-> alertThreshold]}]

\* DELETE FROM budgets WHERE tag = ?
deleteBudget(d, tag) == [d EXCEPT !.budgets = {b \in @ : b.tag # tag}]

RECURSIVE sortBudgets(_)
sortBudgets(budgets) ==
    IF budgets = {} THEN <<>>
    ELSE LET first == CHOOSE b \in budgets :
                          \A q \in budgets \ {b} : textBefore(b.tag, q.tag)
         IN  <<first>> \o sortBudgets(budgets \ {first})

\* SELECT id, tag, monthly_limit, alert_threshold FROM budgets ORDER BY tag
getBudgets(d) == sortBudgets(d.budgets)

\* the literal 'uncategorized'
Uncategorized == <<"uncategorized">>

resolvedTagNoCategory(r) ==
    IF r.tag # Null THEN r.tag ELSE Uncategorized

\* COALESCE(tag, category, 'uncategorized')
resolvedTag(r) ==
    IF r.tag # Null THEN r.tag
    ELSE IF r.category # Null THEN r.category
    ELSE Uncategorized

\* strftime('%Y-%m', date)
strftimeYm(date) == date \div 10

RECURSIVE sumAmount(_)
\* SUM(amount) over the rows of a group
sumAmount(rows) ==
    IF rows = {} THEN 0
    ELSE LET r == CHOOSE x \in rows : TRUE
         IN  r.amount + sumAmount(rows \ {r})

\* GROUP BY COALESCE(tag, category, 'uncategorized'): one result row per group
groupByResolvedTag(rows) ==
    {[tag |-> g,
      count |-> Cardinality({r \in rows : resolvedTag(r) = g}),
      total |-> sumAmount({r \in rows : resolvedTag(r) = g})]
        : g \in {resolvedTag(r) : r \in rows}}

\* getSpendingByTagForMonth(month): WHERE amount > 0 AND strftime('%Y-%m', date) = ?
getSpendingByTagForMonth(d, month) ==
    {[tag |-> g.tag, total |-> g.total] :
        g \in groupByResolvedTag({r \in d.transactions :
                                     r.amount > 0 /\ strftimeYm(r.date) = month})}

\* the orders a result without ORDER BY can come in
anyOrder(rows) ==
    {s \in [1..Cardinality(rows) -> rows] :
        \A i, j \in DOMAIN s : i # j => s[i] # s[j]}

\* ORDER BY total DESC
orderByTotalDesc(rows) ==
    {s \in anyOrder(rows) : \A i \in DOMAIN s : i > 1 => s[i - 1].total >= s[i].total}

\* getSpendingByTag(filters): WHERE amount > 0 and date >= from, date <= to for the
\* bounds supplied, grouped by resolved tag
getSpendingByTag(d, f) ==
    orderByTotalDesc(groupByResolvedTag(
        {r \in d.transactions :
            /\ r.amount > 0
            /\ f.from # <<>> => r.date >= f.from[1]
            /\ f.to # <<>> => r.date <= f.to[1]}))

RECURSIVE orderByMonthAsc(_)
\* ORDER BY month ASC
orderByMonthAsc(rows) ==
    IF rows = {} THEN <<>>
    ELSE LET first == CHOOSE r \in rows : \A q \in rows : r.month <= q.month
         IN  <<first>> \o orderByMonthAsc(rows \ {first})

\* getMonthlySpending(months): WHERE amount > 0 AND date >= date('now', '-N
\* months') GROUP BY strftime('%Y-%m', date); today is the date the clock shows
getMonthlySpending(d, months, today) ==
    LET rows == {r \in d.transactions : r.amount > 0 /\ r.date >= today - 10 * months}
    IN  orderByMonthAsc(
            {[month |-> mo,
              total |-> sumAmount({r \in rows : strftimeYm(r.date) = mo})]
                : mo \in {strftimeYm(r.date) : r \in rows}})

\* ------------------------------------------------------------------ tags.ts

\* the "i" flag: letters compare by their lower case
Lower(c) ==
    CASE c = "A" -> "a"
      [] c = "B" -> "b"
      [] OTHER -> c

\* new RegExp(pattern, "i") throws on a pattern that does not compile; of the
\* patterns used here only an unclosed "[" does not
Compiles(pattern) == "[" \notin Range(pattern)

\* addTagRule(pattern, tag, priority): the pattern is compiled, a ConfigError
\* thrown when it does not, and only then the rule inserted; id is what it returns
addTagRule(d, pattern, tag, priority) ==
    IF ~Compiles(pattern)
    THEN [ok |-> FALSE, error |-> "ConfigError", db |-> d, id |-> 0]
    ELSE [ok |-> TRUE, error |-> "", db |-> insertTagRule(d, pattern, tag, priority),
          id |-> d.rule_seq + 1]

\* new RegExp(pattern, "i").test(haystack) for a pattern of literal symbols: it
\* occurs somewhere in the haystack, case ignored
regexTest(pattern, haystack) ==
    \E off \in 0..(Len(haystack) - Len(pattern)) :
        \A k \in 1..Len(pattern) : Lower(haystack[off + k]) = Lower(pattern[k])

\* parts.join(" ")
RECURSIVE join(_)
join(parts) ==
    IF parts = <<>> THEN <<>>
    ELSE IF Len(parts) = 1 THEN parts[1]
    ELSE parts[1] \o <<" ">> \o join(Tail(parts))

\* [txn.merchant_name, txn.name].filter(Boolean).join(" ")
haystackOf(txn) == join(SelectSeq(<<txn.merchant_name, txn.name>>, Truthy))

\* the inner for loop: the index of the first compiled rule whose regex matches, 0 if none
firstMatch(compiled, haystack) ==
    LET hits == {i \in 1..Len(compiled) : regexTest(compiled[i].pattern, haystack)}
    IN  IF hits = {} THEN 0 ELSE CHOOSE i \in hits : \A j \in hits : i <= j

RECURSIVE tagLoopCountsEvery(_, _, _, _)
tagLoopCountsEvery(d, untagged, compiled, tagged) ==
    IF untagged = {} THEN [db |-> d, tagged |-> tagged]
    ELSE LET txn == CHOOSE t \in untagged : TRUE
             i == firstMatch(compiled, haystackOf(txn))
         IN  IF i = 0
             THEN tagLoopCountsEvery(d, untagged \ {txn}, compiled, tagged + 1)
             ELSE tagLoopCountsEvery(
                      updateTransactionTag(d, txn.transaction_id, compiled[i].tag),
                      untagged \ {txn}, compiled, tagged + 1)

RECURSIVE tagLoop(_, _, _, _)
\* the outer for loop over the untagged rows
tagLoop(d, untagged, compiled, tagged) ==
    IF untagged = {} THEN [db |-> d, tagged |-> tagged]
    ELSE LET txn == CHOOSE t \in untagged : TRUE
             i == firstMatch(compiled, haystackOf(txn))
         IN  IF i = 0
             THEN tagLoop(d, untagged \ {txn}, compiled, tagged)
             ELSE tagLoop(updateTransactionTag(d, txn.transaction_id, compiled[i].tag),
                          untagged \ {txn}, compiled, tagged + 1)

applyTagRules(d) ==
    LET rules == getTagRules(d)
        untagged == getUntaggedTransactions(d)
    IN  IF Len(rules) = 0 THEN [db |-> d, tagged |-> 0]
        ELSE IF untagged = {} THEN [db |-> d, tagged |-> 0]
        ELSE tagLoop(d, untagged, rules, 0)

\* ------------------------------------------------------------------ search.ts

grepTransactionsReadsFirst(d, pattern, f) ==
    {[ok |-> Compiles(pattern),
      error |-> IF Compiles(pattern) THEN "" ELSE "ConfigError",
      reads |-> 1,
      out |-> IF Compiles(pattern)
              THEN SelectSeq(res, LAMBDA t : regexTest(pattern, haystackOf(t)))
              ELSE <<>>] : res \in getTransactions(d, f)}

grepTransactionsLimitLast(d, pattern, f) ==
    IF ~Compiles(pattern)
    THEN {[ok |-> FALSE, error |-> "ConfigError", reads |-> 0, out |-> <<>>]}
    ELSE {[ok |-> TRUE, error |-> "", reads |-> 1,
           out |-> limitClause(f,
                     SelectSeq(res, LAMBDA t : regexTest(pattern, haystackOf(t))))]
             : res \in getTransactions(d, [f EXCEPT !.limit = <<>>])}

\* grepTransactions(pattern, filters): the pattern is compiled, a ConfigError
\* thrown when it does not; then getTransactions(filters) is read once and its
\* rows filtered by the regex on [merchant_name, name].filter(Boolean).join(" ").
\* reads counts the calls of getTransactions
grepTransactions(d, pattern, f) ==
    IF ~Compiles(pattern)
    THEN {[ok |-> FALSE, error |-> "ConfigError", reads |-> 0, out |-> <<>>]}
    ELSE {[ok |-> TRUE, error |-> "", reads |-> 1,
           out |-> SelectSeq(res, LAMBDA t : regexTest(pattern, haystackOf(t)))]
             : res \in getTransactions(d, f)}

\* ------------------------------------------------------------------ budgets.ts

\* Math.round(x * 100) / 100: to the nearer cent, a half going up
roundCents(x) == ((x + 5) \div 10) * 10

\* Math.round((num / den) * 1000) / 1000, in thousandths
roundThousandths(num, den) == (2000 * num + den) \div (2 * den)

\* spendingMap.get(b.tag) || 0
spentOf(spending, tag) ==
    IF \E g \in spending : g.tag = tag
    THEN (CHOOSE g \in spending : g.tag = tag).total
    ELSE 0

budgetStatusUnclamped(b, spent) ==
    [tag |-> b.tag, monthly_limit |-> b.monthly_limit,
     alert_threshold |-> b.alert_threshold,
     spent |-> roundCents(spent),
     remaining |-> roundCents(b.monthly_limit - spent),
     percent_used |-> IF b.monthly_limit > 0
                      THEN roundThousandths(spent, b.monthly_limit) ELSE 0,
     over_budget |-> spent > b.monthly_limit]

\* the status getBudgetStatuses maps a budget to
budgetStatus(b, spent) ==
    [tag |-> b.tag, monthly_limit |-> b.monthly_limit,
     alert_threshold |-> b.alert_threshold,
     spent |-> roundCents(spent),
     remaining |-> roundCents(IF b.monthly_limit - spent > 0
                              THEN b.monthly_limit - spent ELSE 0),
     percent_used |-> IF b.monthly_limit > 0
                      THEN roundThousandths(spent, b.monthly_limit) ELSE 0,
     over_budget |-> spent > b.monthly_limit]

\* getBudgetStatuses(month): month || getCurrentMonth(); month 0 is a month left
\* out, currentMonth the month the clock shows
getBudgetStatuses(d, month, currentMonth) ==
    LET m == IF month = 0 THEN currentMonth ELSE month
        budgets == getBudgets(d)
        spending == getSpendingByTagForMonth(d, m)
    IN  [i \in 1..Len(budgets) |->
            budgetStatus(budgets[i], spentOf(spending, budgets[i].tag))]

checkAlertsAbove(d, month, currentMonth) ==
    SelectSeq(getBudgetStatuses(d, month, currentMonth),
              LAMBDA st : st.percent_used > st.alert_threshold)

\* checkAlerts(month): the statuses with percent_used >= alert_threshold
checkAlerts(d, month, currentMonth) ==
    SelectSeq(getBudgetStatuses(d, month, currentMonth),
              LAMBDA st : st.percent_used >= st.alert_threshold)

\* ------------------------------------------------------------------ reports.ts

computeTrendFirstThree(months) ==
    IF Len(months) < 3 THEN "stable"
    ELSE LET recent == SubSeq(months, 1, 3)
             diffs == [i \in 1..(Len(recent) - 1) |-> recent[i + 1].total - recent[i].total]
             sumDiffs == diffs[1] + diffs[2]
             sumSpend == recent[1].total + recent[2].total + recent[3].total
         IN  IF sumDiffs * Len(recent) * 20 > sumSpend * Len(diffs) THEN "increasing"
             ELSE IF sumDiffs * Len(recent) * 20 < -(sumSpend * Len(diffs))
             THEN "decreasing"
             ELSE "stable"

\* computeTrend(months): over months.slice(-3), avgDiff = sum(diffs) / diffs.length
\* against threshold = (sum(totals) / recent.length) * 0.05, both sides multiplied
\* by diffs.length * recent.length * 20
computeTrend(months) ==
    IF Len(months) < 3 THEN "stable"
    ELSE LET recent == SubSeq(months, Len(months) - 2, Len(months))
             diffs == [i \in 1..(Len(recent) - 1) |-> recent[i + 1].total - recent[i].total]
             sumDiffs == diffs[1] + diffs[2]
             sumSpend == recent[1].total + recent[2].total + recent[3].total
         IN  IF sumDiffs * Len(recent) * 20 > sumSpend * Len(diffs) THEN "increasing"
             ELSE IF sumDiffs * Len(recent) * 20 < -(sumSpend * Len(diffs))
             THEN "decreasing"
             ELSE "stable"

\* getBurnReport(months): the monthly totals rounded to cents, and their trend
getBurnReport(d, months, today) ==
    LET rows == getMonthlySpending(d, months, today)
        monthlyBurn == [i \in 1..Len(rows) |->
                          [month |-> rows[i].month, total |-> roundCents(rows[i].total)]]
    IN  [months |-> monthlyBurn, trend |-> computeTrend(monthlyBurn)]

\* ------------------------------------------------------------------ types/index.ts

displayNameNameFirst(t) == IF Truthy(t.name) THEN t.name ELSE t.merchant_name

\* Transaction.displayName: this.merchant_name || this.name
displayName(t) == IF Truthy(t.merchant_name) THEN t.merchant_name ELSE t.name

\* ------------------------------------------------------------------ sync.ts

\* a cursor is a position of the item's upstream feed; 0 is the empty string
Undefined == -1

\* t.category?.[i] || null: the legacy category list's entry, a missing list being
\* the empty one
legacyCategory(t, i) ==
    IF Len(t.category) >= i /\ Truthy(t.category[i])
    THEN t.category[i] ELSE Null

mapPlaidTransactionFlipsSign(t) ==
    [transaction_id |-> t.transaction_id,
     account_id |-> t.account_id,
     amount |-> 0 - t.amount,
     date |-> t.date,
     name |-> IF Truthy(t.merchant_name) THEN t.merchant_name ELSE t.name,
     merchant_name |-> t.merchant_name,
     pending |-> IF t.pending THEN 1 ELSE 0,
     category |-> IF t.pfc.primary # Null THEN t.pfc.primary
                  ELSE legacyCategory(t, 1),
     subcategory |-> IF t.pfc.detailed # Null THEN t.pfc.detailed
                     ELSE legacyCategory(t, 2)]

\* pfc is personal_finance_category, a missing one having both fields null
mapPlaidTransaction(t) ==
    [transaction_id |-> t.transaction_id,
     account_id |-> t.account_id,
     amount |-> t.amount,
     date |-> t.date,
     name |-> IF Truthy(t.merchant_name) THEN t.merchant_name ELSE t.name,
     merchant_name |-> t.merchant_name,
     pending |-> IF t.pending THEN 1 ELSE 0,
     category |-> IF t.pfc.primary # Null THEN t.pfc.primary
                  ELSE legacyCategory(t, 1),
     subcategory |-> IF t.pfc.detailed # Null THEN t.pfc.detailed
                     ELSE legacyCategory(t, 2)]

mapAll(ts) == [i \in 1..Len(ts) |-> mapPlaidTransaction(ts[i])]

loadCursorEmpty(d, itemId) == 0

\* state?.cursor || ""
loadCursor(d, itemId) ==
    LET state == getSyncState(d, itemId)
    IN  IF state = {} THEN 0 ELSE (CHOOSE s \in state : TRUE).cursor

\* cursor: cursor || undefined
requestCursor(cursor) == IF cursor = 0 THEN Undefined ELSE cursor

\* data.removed.map((r) => r.transaction_id).filter((id) => id != null)
removedIds(removed) ==
    LET ids == [i \in 1..Len(removed) |-> removed[i].transaction_id]
    IN  SelectSeq(ids, LAMBDA id : id # "null")

onPageWritesAdded(d, itemId, data, ts) ==
    LET r == IF Len(data.accounts) > 0
             THEN upsertAccounts(d,
                     [i \in 1..Len(data.accounts) |->
                         [data.accounts[i] EXCEPT !.item_id = itemId]], ts)
             ELSE Ok(d)
    IN  IF r.ok /\ Len(data.added) > 0
        THEN upsertTransactions(r.db, mapAll(data.added))
        ELSE r

onPageWritesNothing(d, itemId, data, ts) == Ok(d)

\* what one page of the loop writes: the page's accounts, under the item being synced
onPage(d, itemId, data, ts) ==
    IF Len(data.accounts) > 0
    THEN upsertAccounts(d,
            [i \in 1..Len(data.accounts) |->
                [data.accounts[i] EXCEPT !.item_id = itemId]], ts)
    ELSE Ok(d)

\* the function handed to db.transaction: the upserts of allAdded and of
\* allModified, the removal of allRemoved, the cursor; failAt > 0 is the storage
\* medium failing in statement failAt of the four
commitBody(d, s, ts, failAt) ==
    LET r1 == IF Len(s.allAdded) > 0
              THEN upsertTransactions(d, mapAll(s.allAdded)) ELSE Ok(d)
        r2 == IF Len(s.allModified) > 0
              THEN upsertTransactions(r1.db, mapAll(s.allModified)) ELSE Ok(r1.db)
        r3 == IF Len(s.allRemoved) > 0
              THEN removeTransactions(r2.db, s.allRemoved) ELSE Ok(r2.db)
        r4 == Ok(setSyncState(r3.db, s.itemId, s.cursor, ts))
    IN  IF ~r1.ok \/ failAt = 1 THEN Threw(r1.db)
        ELSE IF ~r2.ok \/ failAt = 2 THEN Threw(r2.db)
        ELSE IF ~r3.ok \/ failAt = 3 THEN Threw(r3.db)
        ELSE IF failAt = 4 THEN Threw(r4.db)
        ELSE r4

commitUnwrapped(d, s, ts, failAt) == commitBody(d, s, ts, failAt)

\* db.transaction(() => { ... })() at the end of syncItem
commit(d, s, ts, failAt) == dbTransaction(d, commitBody(d, s, ts, failAt))

\* ------------------------------------------------------------------ cli.ts

unlinkAccountsFirst(d, account) ==
    LET itemId == account.item_id
        accountIds == {a.account_id : a \in {x \in d.accounts : x.item_id = itemId}}
        r1 == removeAccountsByItem(d, itemId)
        r2 == removeTransactionsByAccount(r1.db, accountIds)
    IN  IF r1.ok
        THEN [ok |-> TRUE, item |-> itemId, ids |-> accountIds, n |-> r2.count,
              db |-> removeSyncState(r2.db, itemId)]
        ELSE [ok |-> FALSE, item |-> itemId, ids |-> accountIds, n |-> 0,
              db |-> r1.db]

\* the unlink command once the account is found: the item's transactions, then the
\* item's accounts, then its sync state; a throw ends the command where it is
unlink(d, account) ==
    LET itemId == account.item_id
        accountIds == {a.account_id : a \in {x \in d.accounts : x.item_id = itemId}}
        r1 == removeTransactionsByAccount(d, accountIds)
        r2 == removeAccountsByItem(r1.db, itemId)
    IN  IF r2.ok
        THEN [ok |-> TRUE, item |-> itemId, ids |-> accountIds, n |-> r1.count,
              db |-> removeSyncState(r2.db, itemId)]
        ELSE [ok |-> FALSE, item |-> itemId, ids |-> accountIds, n |-> r1.count,
              db |-> r2.db]

\* ------------------------------------------------------------------ state

\* pc: where syncAll stands; idx: the index of the for loop over the items; itemId,
\* cursor, allAdded, allModified, allRemoved: syncItem's parameter and locals;
\* asked: the cursors its page requests carried so far; start: the transactions and
\* sync_state tables as they were when it began; tried: the items begun so far
NoSync ==
    [pc |-> "idle", idx |-> 0, itemId |-> "", cursor |-> 0, allAdded |-> <<>>,
     allModified |-> <<>>, allRemoved |-> <<>>, asked |-> <<>>,
     start |-> [transactions |-> {}, sync_state |-> {}], tried |-> {}]

\* op: the operation; ok: FALSE when it threw; item, ids, n: what unlink removed
\* (for syncAll: the item that failed, the items begun, the pages fetched before
\* the failure); rows: the row an upsert supplied last for each id; undone:
\* statements of the batch had run when it threw; ret: the value returned; again:
\* the operation before this one was the same one; why: the step of syncItem
\* that threw; error: the class of what was thrown; filters, pattern, month: the
\* arguments of a query; out, trend: what it returned; plaid: the upstream
\* records handed to mapPlaidTransaction
NoOp ==
    [op |-> "none", ok |-> TRUE, item |-> "", ids |-> {}, n |-> 0, rows |-> {},
     undone |-> FALSE, ret |-> 0, again |-> FALSE, why |-> "", error |-> "",
     filters |-> NoFilters, pattern |-> <<>>, month |-> 0, out |-> <<>>,
     trend |-> "", plaid |-> <<>>]

Did(op, ok) == [NoOp EXCEPT !.op = op, !.ok = ok]

Init ==
    /\ db = EmptyDb
    /\ now = 0
    /\ sync = NoSync
    /\ last = NoOp

\* ------------------------------------------------------------------ the store's callers

Account(id, item, name, mask, balance) ==
    [account_id |-> id, item_id |-> item, name |-> name, mask |-> mask,
     current_balance |-> balance]

Txn(id, account, amount, name, merchant) ==
    [transaction_id |-> id, account_id |-> account, amount |-> amount,
     date |-> 1, name |-> name, merchant_name |-> merchant, pending |-> 0,
     category |-> Null, subcategory |-> Null]

DbAccountInputs ==
    {Account("a1", "i1", <<"A">>, "m1", 10), Account("a1", "i2", <<"A">>, "m1", 10),
     Account("a1", "i1", <<"A">>, "m1", 20), Account("a2", "i1", <<"B">>, "m2", 10),
     Account("a2", "i1", Null, "m2", 10)}

DbTxnInputs ==
    {Txn("t1", "a1", 5, <<"A">>, Null), Txn("t1", "a1", 7, <<"A">>, Null),
     Txn("t2", "a2", 5, <<"B">>, Null),
     Txn("t2", "a2", 5, Null, Null)}

DbTxnIds == {t.transaction_id : t \in DbTxnInputs}

DbItems == {a.item_id : a \in DbAccountInputs}

AccountKey(a) == a.account_id
TxnKey(t) == t.transaction_id

\* the rows of the list that are the last supplied for their id
Latest(list, key(_)) ==
    {list[i] : i \in {k \in 1..Len(list) :
        ~\E j \in (k + 1)..Len(list) : key(list[j]) = key(list[k])}}

\* rows of the list whose id is already stored
Existing(rows, list, key(_)) ==
    Cardinality({i \in 1..Len(list) : \E r \in rows : key(r) = key(list[i])})

UpsertAccounts ==
    \E list \in SeqsUpTo(DbAccountInputs, MaxBatch) :
        LET r == upsertAccounts(db, list, now)
        IN  /\ db' = r.db
            /\ last' = [Did("upsertAccounts", r.ok) EXCEPT
                          !.rows = Latest(list, AccountKey),
                          !.n = Existing(db.accounts, list, AccountKey),
                          !.undone = runUpsertAccounts(db, list, now).db # db /\ ~r.ok]
            /\ UNCHANGED <<now, sync>>

UpsertTransactions ==
    \E list \in SeqsUpTo(DbTxnInputs, MaxBatch) :
        LET r == upsertTransactions(db, list)
        IN  /\ db' = r.db
            /\ last' = [Did("upsertTransactions", r.ok) EXCEPT
                          !.rows = Latest(list, TxnKey),
                          !.n = Existing(db.transactions, list, TxnKey),
                          !.undone = runUpsertTransactions(db, list).db # db /\ ~r.ok]
            /\ UNCHANGED <<now, sync>>

RemoveTransactions ==
    \E ids \in SeqsUpTo(DbTxnIds, MaxBatch) :
        LET r == removeTransactions(db, ids)
        IN  /\ db' = r.db
            /\ last' = Did("removeTransactions", r.ok)
            /\ UNCHANGED <<now, sync>>

SetSyncState ==
    \E item \in DbItems :
        /\ db' = setSyncState(db, item, 1, now)
        /\ last' = [Did("setSyncState", TRUE) EXCEPT !.item = item]
        /\ UNCHANGED <<now, sync>>

\* cli.ts unlink <identifier>: ConfigError when no account has that id or mask
Unlink ==
    \E identifier \in {"a1", "a2", "m1", "zz"} :
        LET found == getAccountByIdOrMask(db, identifier)
        IN  IF found = {}
            THEN /\ last' = Did("unlinkNotFound", FALSE)
                 /\ UNCHANGED <<db, now, sync>>
            ELSE \E account \in found :
                    LET r == unlink(db, account)
                    IN  /\ db' = r.db
                        /\ last' = [Did("unlink", r.ok) EXCEPT
                                      !.item = r.item, !.ids = r.ids, !.n = r.n]
                        /\ UNCHANGED <<now, sync>>

DbNext ==
    \/ UpsertAccounts
    \/ UpsertTransactions
    \/ RemoveTransactions
    \/ SetSyncState
    \/ Unlink

\* the ledger store driven directly, as the CLI and the tests drive it
SpecDb == Init /\ [][DbNext]_vars

\* ------------------------------------------------------------------ the store's references

\* the rows of DbTxnInputs, and rows of an account no one upserts: a new
\* transaction and one that moves a stored transaction
FkTxnInputs ==
    DbTxnInputs \cup {Txn("t3", "a9", 5, <<"A">>, Null), Txn("t1", "a9", 5, <<"A">>, Null)}

FkUpsertTransactions ==
    \E list \in SeqsUpTo(FkTxnInputs, MaxBatch) :
        LET r == upsertTransactions(db, list)
        IN  /\ db' = r.db
            /\ last' = [Did("upsertTransactions", r.ok) EXCEPT
                          !.ids = {t.account_id : t \in Range(list)},
                          !.undone = runUpsertTransactions(db, list).db # db /\ ~r.ok]
            /\ UNCHANGED <<now, sync>>

FkRemoveAccountsByItem ==
    \E item \in DbItems :
        LET r == removeAccountsByItem(db, item)
        IN  /\ db' = r.db
            /\ last' = [Did("removeAccountsByItem", r.ok) EXCEPT
                          !.item = item, !.ids = r.ids]
            /\ UNCHANGED <<now, sync>>

FkNext ==
    \/ UpsertAccounts
    \/ FkUpsertTransactions
    \/ RemoveTransactions
    \/ FkRemoveAccountsByItem
    \/ Unlink

\* the writers of accounts and transactions, called in any order
SpecFk == Init /\ [][FkNext]_vars

\* ------------------------------------------------------------------ the ledger's readers

\* a transaction row as upsertTransactions is handed it; a date is 10 * month + day
Row(id, account, amount, date, name, merchant, pending, category) ==
    [transaction_id |-> id, account_id |-> account, amount |-> amount,
     date |-> date, name |-> name, merchant_name |-> merchant, pending |-> pending,
     category |-> category, subcategory |-> Null]

\* a ledger of two accounts
LedgerInit ==
    /\ db = upsertAccounts(EmptyDb, <<Account("a1", "i1", <<"A">>, "m1", 10),
                                     Account("a2", "i1", <<"B">>, "m2", 10)>>, 0).db
    /\ now = 0
    /\ sync = NoSync
    /\ last = NoOp

\* rows that differ in every column the queries read: two on the same date, an
\* inflow, a category that is also a tag, a merchant; and one without a name
LedgerTxnInputs ==
    {Row("t1", "a1", 6, 11, <<"A">>, Null, 0, Null),
     Row("t1", "a1", 9, 21, <<"B">>, Null, 0, <<"c">>),
     Row("t2", "a2", 6, 11, <<"B">>, <<"A">>, 1, <<"c">>),
     Row("t2", "a2", 0, 12, <<"B">>, <<>>, 0, Null),
     Row("t3", "a1", -4, 21, <<"A">>, Null, 0, <<"x">>),
     Row("t3", "a1", 3, 12, <<"A">>, Null, 1, <<"x">>),
     Row("t3", "a1", 5, 21, Null, Null, 0, Null)}

LedgerTxnIds == {t.transaction_id : t \in LedgerTxnInputs}

LedgerUpsertTransactions ==
    \E list \in SeqsUpTo(LedgerTxnInputs, MaxBatch) :
        LET r == upsertTransactions(db, list)
        IN  /\ db' = r.db
            /\ last' = [Did("upsertTransactions", r.ok) EXCEPT
                          !.undone = runUpsertTransactions(db, list).db # db /\ ~r.ok]
            /\ UNCHANGED <<now, sync>>

LedgerUpsertTransaction ==
    \E t \in LedgerTxnInputs :
        LET r == upsertTransactions(db, <<t>>)
        IN  /\ db' = r.db
            /\ last' = Did("upsertTransactions", r.ok)
            /\ UNCHANGED <<now, sync>>

LedgerRemoveTransactions ==
    \E id \in LedgerTxnIds :
        LET r == removeTransactions(db, <<id>>)
        IN  /\ db' = r.db
            /\ last' = Did("removeTransactions", r.ok)
            /\ UNCHANGED <<now, sync>>

LedgerRemoveTransactionsByAccount ==
    \E account \in AccountIdsOf(db) :
        LET r == removeTransactionsByAccount(db, {account})
        IN  /\ db' = r.db
            /\ last' = [Did("removeTransactionsByAccount", TRUE) EXCEPT !.n = r.count]
            /\ UNCHANGED <<now, sync>>

LedgerUpdateTransactionTag ==
    \E id \in LedgerTxnIds, tag \in {<<"x">>, Null} :
        /\ db' = updateTransactionTag(db, id, tag)
        /\ last' = Did("updateTransactionTag", TRUE)
        /\ UNCHANGED <<now, sync>>

\* the filters the queries are called with: each alone, and several at once
LedgerFilters ==
    {NoFilters,
     [NoFilters EXCEPT !.from = <<12>>],
     [NoFilters EXCEPT !.to = <<12>>],
     [NoFilters EXCEPT !.from = <<11>>, !.to = <<11>>],
     [NoFilters EXCEPT !.min = <<0>>],
     [NoFilters EXCEPT !.max = <<6>>],
     [NoFilters EXCEPT !.min = <<6>>, !.max = <<6>>],
     [NoFilters EXCEPT !.account = <<"a1">>],
     [NoFilters EXCEPT !.pending = <<TRUE>>],
     [NoFilters EXCEPT !.pending = <<FALSE>>],
     [NoFilters EXCEPT !.tag = <<(<<"x">>)>>],
     [NoFilters EXCEPT !.tag = <<(<<"c">>)>>],
     [NoFilters EXCEPT !.from = <<11>>, !.to = <<21>>, !.min = <<0>>, !.max = <<9>>,
                       !.account = <<"a1">>, !.pending = <<FALSE>>,
                       !.tag = <<(<<"c">>)>>],
     [NoFilters EXCEPT !.account = <<"a2">>, !.pending = <<TRUE>>, !.from = <<11>>],
     [NoFilters EXCEPT !.limit = <<0>>],
     [NoFilters EXCEPT !.limit = <<1>>],
     [NoFilters EXCEPT !.limit = <<2>>],
     [NoFilters EXCEPT !.tag = <<(<<"c">>)>>, !.limit = <<1>>]}

LedgerGetTransactions ==
    \E f \in LedgerFilters :
        \E res \in getTransactions(db, f) :
            /\ last' = [Did("getTransactions", TRUE) EXCEPT !.filters = f, !.out = res]
            /\ UNCHANGED <<db, now, sync>>

\* getSpendingByTag over the date ranges among the filters
LedgerGetSpendingByTag ==
    \E f \in {g \in LedgerFilters :
                \A k \in DOMAIN g : k \notin {"from", "to"} => g[k] = <<>>} :
        \E res \in getSpendingByTag(db, f) :
            /\ last' = [Did("getSpendingByTag", TRUE) EXCEPT !.filters = f, !.out = res]
            /\ UNCHANGED <<db, now, sync>>

LedgerGetSpendingByTagForMonth ==
    \E month \in {1, 2} :
        \E res \in anyOrder(getSpendingByTagForMonth(db, month)) :
            /\ last' = [Did("getSpendingByTagForMonth", TRUE) EXCEPT
                          !.month = month, !.out = res]
            /\ UNCHANGED <<db, now, sync>>

LedgerGrepTransactions ==
    \E pattern \in {<<"a">>, <<"b">>, <<"a", " ", "b">>, <<"[">>} :
        \E f \in {g \in LedgerFilters : g.limit # <<>> \/ g = NoFilters} :
            \E g \in grepTransactions(db, pattern, f) :
                /\ last' = [Did("grepTransactions", g.ok) EXCEPT
                              !.pattern = pattern, !.filters = f, !.error = g.error,
                              !.n = g.reads, !.out = g.out]
                /\ UNCHANGED <<db, now, sync>>

FtsNext ==
    \/ LedgerUpsertTransactions
    \/ LedgerRemoveTransactions
    \/ LedgerRemoveTransactionsByAccount
    \/ LedgerUpdateTransactionTag

\* the writes to the transactions table, in batches, and the index they maintain
SpecFts == LedgerInit /\ [][FtsNext]_vars

LedgerNext ==
    \/ LedgerUpsertTransaction
    \/ LedgerRemoveTransactions
    \/ LedgerUpdateTransactionTag
    \/ LedgerGetTransactions
    \/ LedgerGrepTransactions
    \/ LedgerGetSpendingByTag
    \/ LedgerGetSpendingByTagForMonth

\* the queries over a ledger that row-by-row writes change
SpecLedger == LedgerInit /\ [][LedgerNext]_vars

\* ------------------------------------------------------------------ budgets.ts callers

\* spending of two months: amounts that are no whole cents, an inflow, a row no
\* category or tag resolves
BudgetTxnInputs ==
    {Row("t1", "a1", 26, 11, <<"A">>, Null, 0, <<"c">>),
     Row("t1", "a1", 1799, 11, <<"A">>, Null, 0, <<"c">>),
     Row("t2", "a1", 6, 12, <<"B">>, Null, 0, Null),
     Row("t2", "a1", 6, 21, <<"B">>, Null, 0, <<"c">>),
     Row("t3", "a2", -4, 11, <<"B">>, Null, 0, <<"c">>)}

\* budgets as setBudget is handed them: limits of 3 cents, 2 dollars, nothing and
\* less than nothing; thresholds of 0.9 (the default) and 0.5
BudgetInputs ==
    {[tag |-> <<"c">>, monthly_limit |-> 30, alert_threshold |-> 900],
     [tag |-> <<"c">>, monthly_limit |-> 2000, alert_threshold |-> 900],
     [tag |-> <<"c">>, monthly_limit |-> 0, alert_threshold |-> 900],
     [tag |-> <<"x">>, monthly_limit |-> -10, alert_threshold |-> 900],
     [tag |-> <<"x">>, monthly_limit |-> 30, alert_threshold |-> 500]}

BudgetUpsertTransactions ==
    \E t \in BudgetTxnInputs :
        LET r == upsertTransactions(db, <<t>>)
        IN  /\ db' = r.db
            /\ last' = Did("upsertTransactions", r.ok)
            /\ UNCHANGED <<now, sync>>

BudgetUpdateTransactionTag ==
    \E id \in {t.transaction_id : t \in BudgetTxnInputs}, tag \in {<<"x">>, Null} :
        /\ db' = updateTransactionTag(db, id, tag)
        /\ last' = Did("updateTransactionTag", TRUE)
        /\ UNCHANGED <<now, sync>>

SetBudget ==
    \E b \in BudgetInputs :
        /\ db' = upsertBudget(db, b.tag, b.monthly_limit, b.alert_threshold)
        /\ last' = Did("setBudget", TRUE)
        /\ UNCHANGED <<now, sync>>

DeleteBudget ==
    \E b \in BudgetInputs :
        /\ db' = deleteBudget(db, b.tag)
        /\ last' = Did("deleteBudget", TRUE)
        /\ UNCHANGED <<now, sync>>

\* getBudgetStatuses(month?): last.month is the month it computed for
GetBudgetStatuses ==
    \E month \in {0, 1, 2}, currentMonth \in {1, 2} :
        /\ last' = [Did("getBudgetStatuses", TRUE) EXCEPT
                      !.month = IF month = 0 THEN currentMonth ELSE month,
                      !.out = getBudgetStatuses(db, month, currentMonth)]
        /\ UNCHANGED <<db, now, sync>>

CheckAlerts ==
    \E month \in {0, 1, 2}, currentMonth \in {1, 2} :
        /\ last' = [Did("checkAlerts", TRUE) EXCEPT
                      !.month = IF month = 0 THEN currentMonth ELSE month,
                      !.out = checkAlerts(db, month, currentMonth)]
        /\ UNCHANGED <<db, now, sync>>

BudgetNext ==
    \/ BudgetUpsertTransactions
    \/ BudgetUpdateTransactionTag
    \/ SetBudget
    \/ DeleteBudget
    \/ GetBudgetStatuses
    \/ CheckAlerts

SpecBudget == LedgerInit /\ [][BudgetNext]_vars

\* ------------------------------------------------------------------ reports.ts callers

\* one transaction a month over four months, of amounts around a dollar whose
\* trends lie on both sides of the 5% threshold and not on it
BurnTxnInputs ==
    {Row(<<"t1", "t2", "t3", "t4">>[mo], "a1", amount, 10 * mo + 5, <<"A">>, Null, 0, Null)
        : mo \in 1..4, amount \in {1000, 1100, 1104, 1110}}

BurnUpsertTransaction ==
    \E t \in BurnTxnInputs :
        LET r == upsertTransactions(db, <<t>>)
        IN  /\ db' = r.db
            /\ last' = Did("upsertTransactions", r.ok)
            /\ UNCHANGED <<now, sync>>

BurnRemoveTransaction ==
    \E id \in {t.transaction_id : t \in BurnTxnInputs} :
        LET r == removeTransactions(db, <<id>>)
        IN  /\ db' = r.db
            /\ last' = Did("removeTransactions", r.ok)
            /\ UNCHANGED <<now, sync>>

\* getBurnReport(months) late in the fourth month: two months back or six
GetBurnReport ==
    \E months \in {2, 6}, today \in {45} :
        LET report == getBurnReport(db, months, today)
        IN  /\ last' = [Did("getBurnReport", TRUE) EXCEPT
                          !.n = months, !.out = report.months, !.trend = report.trend]
            /\ UNCHANGED <<db, now, sync>>

BurnNext ==
    \/ BurnUpsertTransaction
    \/ BurnRemoveTransaction
    \/ GetBurnReport

SpecBurn == LedgerInit /\ [][BurnNext]_vars

\* ------------------------------------------------------------------ tags.ts callers

\* the tags tests' beforeEach: one account stored
TagsInit ==
    /\ db = upsertAccounts(EmptyDb, <<Account("a1", "i1", <<"A">>, "m1", 10)>>, 0).db
    /\ now = 0
    /\ sync = NoSync
    /\ last = NoOp

TagTxnInputs ==
    {Txn("t1", "a1", 5, <<"B">>, <<"A">>), Txn("t2", "a1", 5, <<"B">>, Null),
     Txn("t2", "a1", 5, <<"A">>, <<>>)}

TagRuleInputs ==
    {[pattern |-> <<"a">>, tag |-> <<"x">>, priority |-> 0],
     [pattern |-> <<"a">>, tag |-> <<"y">>, priority |-> 0],
     [pattern |-> <<"a">>, tag |-> <<"y">>, priority |-> 1],
     [pattern |-> <<"a", " ", "b">>, tag |-> <<"z">>, priority |-> 1],
     [pattern |-> <<"[">>, tag |-> <<"x">>, priority |-> 0]}

TagTxnIds == {t.transaction_id : t \in TagTxnInputs}

\* addTagRule: ConfigError before any write when the pattern does not compile
AddTagRule ==
    \E r \in TagRuleInputs :
        /\ db.rule_seq < MaxRules
        /\ LET a == addTagRule(db, r.pattern, r.tag, r.priority)
           IN  /\ db' = a.db
               /\ last' = [Did("addTagRule", a.ok) EXCEPT
                             !.ret = a.id, !.error = a.error, !.pattern = r.pattern]
        /\ UNCHANGED <<now, sync>>

DeleteTagRule ==
    \E id \in 1..MaxRules :
        /\ db' = deleteTagRule(db, id)
        /\ last' = Did("deleteTagRule", \E r \in db.tag_rules : r.id = id)
        /\ UNCHANGED <<now, sync>>

ApplyTagRules ==
    LET r == applyTagRules(db)
    IN  /\ db' = r.db
        /\ last' = [Did("applyTagRules", TRUE) EXCEPT
                      !.ret = r.tagged, !.again = (last.op = "applyTagRules")]
        /\ UNCHANGED <<now, sync>>

\* a manual edit of one tag (the tag command), to a tag or back to null
UpdateTransactionTag ==
    \E id \in TagTxnIds, tag \in {<<"m">>, Null} :
        /\ db' = updateTransactionTag(db, id, tag)
        /\ last' = Did("updateTransactionTag", TRUE)
        /\ UNCHANGED <<now, sync>>

TagUpsertTransactions ==
    \E t \in TagTxnInputs :
        LET r == upsertTransactions(db, <<t>>)
        IN  /\ db' = r.db
            /\ last' = [Did("upsertTransactions", r.ok) EXCEPT !.rows = {t}]
            /\ UNCHANGED <<now, sync>>

TagRemoveTransactions ==
    \E id \in TagTxnIds :
        LET r == removeTransactions(db, <<id>>)
        IN  /\ db' = r.db
            /\ last' = Did("removeTransactions", r.ok)
            /\ UNCHANGED <<now, sync>>

\* grepTransactions with the patterns the rules are made of
TagGrepTransactions ==
    \E r \in TagRuleInputs, f \in {NoFilters, [NoFilters EXCEPT !.limit = <<1>>]} :
        \E g \in grepTransactions(db, r.pattern, f) :
            /\ last' = [Did("grepTransactions", g.ok) EXCEPT
                          !.pattern = r.pattern, !.filters = f, !.error = g.error,
                          !.n = g.reads, !.out = g.out]
            /\ UNCHANGED <<db, now, sync>>

TagsNext ==
    \/ TagGrepTransactions
    \/ AddTagRule
    \/ DeleteTagRule
    \/ ApplyTagRules
    \/ UpdateTransactionTag
    \/ TagUpsertTransactions
    \/ TagRemoveTransactions

\* the classification engine over a ledger that syncs and manual edits change
SpecTags == TagsInit /\ [][TagsNext]_vars

\* ------------------------------------------------------------------ the mapping's callers

\* the records of the upstream feed: transaction t1 of account a1, with a merchant
\* name that is missing, empty or a text; a personal_finance_category that is
\* missing, has both values, has a primary value only or has empty values; a
\* legacy category list that is missing or empty, of one entry, of two, or of
\* empty entries
PlaidInputs ==
    {[transaction_id |-> "t1", account_id |-> "a1", amount |-> amount, date |-> 11,
      name |-> <<"A">>, merchant_name |-> merchant, pending |-> pending,
      pfc |-> pfc, category |-> category] :
        amount \in {-5, 5}, merchant \in {Null, <<>>, <<"M">>}, pending \in BOOLEAN,
        pfc \in {[primary |-> Null, detailed |-> Null],
                 [primary |-> <<"P">>, detailed |-> <<"D">>],
                 [primary |-> <<"P">>, detailed |-> Null],
                 [primary |-> <<>>, detailed |-> <<>>]},
        category \in {<<>>, <<(<<"c">>)>>, <<(<<"c">>), (<<"x">>)>>,
                      <<(<<>>), (<<>>)>>}}

\* the final write of a pass that fetched one added record: the record is mapped
\* and upserted
MapUpsertTransactions ==
    \E t \in PlaidInputs :
        LET mapped == mapAll(<<t>>)
            r == upsertTransactions(db, mapped)
        IN  /\ db' = r.db
            /\ last' = [Did("mapPlaidTransaction", r.ok) EXCEPT
                          !.plaid = <<t>>, !.out = mapped]
            /\ UNCHANGED <<now, sync>>

\* the rows are read back as Transaction objects and their displayName is taken
MapDisplayNames ==
    \E res \in getTransactions(db, NoFilters) :
        /\ last' = [Did("displayName", TRUE) EXCEPT
                      !.out = [i \in 1..Len(res) |->
                                 [transaction_id |-> res[i].transaction_id,
                                  displayName |-> displayName(res[i])]]]
        /\ UNCHANGED <<db, now, sync>>

\* rows are also written as the store's other callers hand them over: one with a
\* name that is not the merchant's, one without a merchant
MapUpsertRow ==
    \E t \in {Row("t2", "a2", 6, 11, <<"B">>, <<"A">>, 1, <<"c">>),
               Row("t3", "a1", -4, 21, <<"A">>, Null, 0, <<"x">>)} :
        LET r == upsertTransactions(db, <<t>>)
        IN  /\ db' = r.db
            /\ last' = Did("upsertTransactions", r.ok)
            /\ UNCHANGED <<now, sync>>

MapNext ==
    \/ MapUpsertTransactions
    \/ MapUpsertRow
    \/ MapDisplayNames

SpecMap == LedgerInit /\ [][MapNext]_vars

\* ------------------------------------------------------------------ sync.ts callers

\* getDecryptedAccessTokens(): the linked items, in the order of the config file
ConfigItems == <<"i1", "i2">>

Plaid(id, account, amount) ==
    [transaction_id |-> id, account_id |-> account, amount |-> amount, date |-> 1,
     name |-> <<"A">>, merchant_name |-> Null, pending |-> FALSE,
     pfc |-> [primary |-> Null, detailed |-> Null], category |-> <<>>]

NoData == [added |-> <<>>, modified |-> <<>>, removed |-> <<>>, accounts |-> <<>>]

\* what a page of an item's feed can hold: an added transaction, a modified one, a
\* removed one (beside an entry without id), an added transaction of an account
\* the feed never reported, an account without a name
PageBodies(item) ==
    LET a == Account(IF item = "i1" THEN "a1" ELSE "a2", item, <<"A">>, "m1", 10)
        t == IF item = "i1" THEN "t1" ELSE "t2"
    IN  {[NoData EXCEPT !.added = <<Plaid(t, a.account_id, 5)>>, !.accounts = <<a>>],
         [NoData EXCEPT !.modified = <<Plaid(t, a.account_id, 7)>>, !.accounts = <<a>>],
         [NoData EXCEPT !.removed = <<[transaction_id |-> t],
                                      [transaction_id |-> "null"]>>],
         [NoData EXCEPT !.added = <<Plaid("t9", "a9", 5)>>],
         [NoData EXCEPT !.accounts = <<[a EXCEPT !.name = Null]>>]}

\* the responses plaid.transactionsSync can give to a request from position pos:
\* the next page of the feed, or nothing new
Responses(item, pos) ==
    {[data |-> NoData, has_more |-> FALSE, next_cursor |-> pos]}
    \cup {[data |-> b, has_more |-> more, next_cursor |-> pos + 1] :
            b \in IF pos < MaxCursor THEN PageBodies(item) ELSE {},
            more \in IF pos + 1 < MaxCursor THEN BOOLEAN ELSE {FALSE}}

\* syncAll is called: the for loop starts at the first item
SyncAll ==
    /\ sync.pc = "idle"
    /\ now < MaxSyncs
    /\ now' = now + 1
    /\ sync' = [NoSync EXCEPT !.pc = "item", !.idx = 1]
    /\ UNCHANGED <<db, last>>

\* syncItem up to its first page request: the stored cursor is read and sent
SyncItemBegin ==
    /\ sync.pc = "item"
    /\ LET itemId == ConfigItems[sync.idx]
           cursor == loadCursor(db, itemId)
       IN  sync' = [sync EXCEPT
                      !.pc = "page", !.itemId = itemId, !.cursor = cursor,
                      !.allAdded = <<>>, !.allModified = <<>>, !.allRemoved = <<>>,
                      !.asked = <<requestCursor(cursor)>>,
                      !.start = [transactions |-> db.transactions,
                                 sync_state |-> db.sync_state],
                      !.tried = @ \cup {itemId}]
    /\ UNCHANGED <<db, now, last>>

\* what syncItem throws: the catch block of the page loop wraps whatever the
\* request or the account upsert threw in a SyncError; the atomic write comes
\* after the try statement, and what it throws leaves syncItem as it is
thrownAs(why) ==
    IF why \in {"page", "accounts"} THEN "SyncError" ELSE "SQLiteError"

\* syncAll ends by an error thrown out of syncItem
Thrown(why) ==
    [Did("syncAll", FALSE) EXCEPT !.item = sync.itemId, !.why = why,
                                  !.ids = sync.tried, !.n = Len(sync.asked) - 1,
                                  !.error = thrownAs(why)]

\* a page request is answered: the page is accumulated, its accounts are upserted,
\* and the next page is requested when has_more
PageArrives ==
    /\ sync.pc = "page"
    /\ \E resp \in Responses(sync.itemId, sync.cursor) :
          LET r == onPage(db, sync.itemId, resp.data, now)
          IN  /\ db' = r.db
              /\ IF ~r.ok
                 THEN /\ sync' = NoSync
                      /\ last' = Thrown("accounts")
                 ELSE /\ sync' = [sync EXCEPT
                            !.allAdded = @ \o resp.data.added,
                            !.allModified = @ \o resp.data.modified,
                            !.allRemoved = @ \o removedIds(resp.data.removed),
                            !.cursor = resp.next_cursor,
                            !.asked = IF resp.has_more
                                      THEN Append(@, requestCursor(resp.next_cursor))
                                      ELSE @,
                            !.pc = IF resp.has_more THEN "page" ELSE "commit"]
                      /\ last' = last
    /\ UNCHANGED now

\* a page request fails: the catch block throws SyncError
PageFails ==
    /\ sync.pc = "page"
    /\ sync' = NoSync
    /\ last' = Thrown("page")
    /\ UNCHANGED <<db, now>>

\* the atomic write that follows the last page with no await in between; then the
\* next item of syncAll's loop, or its return
Commit ==
    /\ sync.pc = "commit"
    /\ \E failAt \in 0..4 :
          LET r == commit(db, sync, now, failAt)
          IN  /\ db' = r.db
              /\ IF ~r.ok
                 THEN /\ sync' = NoSync
                      /\ last' = [Thrown("commit") EXCEPT
                                    !.undone = commitBody(db, sync, now, failAt).db # db]
                 ELSE IF sync.idx < Len(ConfigItems)
                 THEN /\ sync' = [sync EXCEPT !.pc = "item", !.idx = @ + 1]
                      /\ last' = [Did("syncItem", TRUE) EXCEPT !.item = sync.itemId]
                 ELSE /\ sync' = NoSync
                      /\ last' = [Did("syncAll", TRUE) EXCEPT !.ids = sync.tried]
    /\ UNCHANGED now

SyncNext ==
    \/ SyncAll
    \/ SyncItemBegin
    \/ PageArrives
    \/ PageFails
    \/ Commit

\* sync commands run one after another against the upstream feed
SpecSync == Init /\ [][SyncNext]_vars

\* ------------------------------------------------------------------ mcp.ts callers

\* the syncItem calls in progress, each made by a cashflow_sync call for the item
Passes == {1, 2}

\* pc: where the call stands ("request": awaiting plaid.transactionsSync;
\* "accounts": in the transaction of upsertAccounts; "paged": at the end of the
\* loop body; "write": in the final transaction); itemId, cursor, hasMore,
\* allAdded, allModified, allRemoved: syncItem's parameter and locals; page: the
\* page being handled; open: the storage transactions the call has begun and not
\* ended; seen: the calls that had written when this one read the cursor; order:
\* its place among the calls that have written; pages: the pages its requests
\* were answered with, in the order they came
NoPass ==
    [pc |-> "idle", itemId |-> "i1", cursor |-> 0, hasMore |-> TRUE,
     allAdded |-> <<>>, allModified |-> <<>>, allRemoved |-> <<>>, page |-> NoData,
     open |-> 0, seen |-> 0, order |-> 0, pages |-> <<>>]

\* the JavaScript of a call runs without interruption from one await to the next:
\* a call takes a step only when every other call stands at an await or is over
AtAwait(pass) == pass.pc \in {"idle", "request", "done", "failed"}

Alone(p) == \A q \in Passes \ {p} : AtAwait(sync[q])

Written == Cardinality({q \in Passes : sync[q].order > 0})

\* db.transaction(fn)() begins a storage transaction ...
beginTransaction(pass) == [pass EXCEPT !.open = @ + 1]

endTransactionLeftOpen(pass) == pass

\* ... and has committed it or rolled it back when it returns
endTransaction(pass) == [pass EXCEPT !.open = @ - 1]

OverlapInit ==
    /\ db = EmptyDb
    /\ now = 0
    /\ sync = [p \in Passes |-> NoPass]
    /\ last = NoOp

\* syncItem up to its first page request
OverlapBegin(p) ==
    /\ sync[p].pc = "idle"
    /\ Alone(p)
    /\ sync' = [sync EXCEPT ![p] =
                  [@ EXCEPT !.pc = "request",
                            !.cursor = loadCursor(db, sync[p].itemId),
                            !.seen = Written]]
    /\ now' = now + 1
    /\ UNCHANGED <<db, last>>

\* the request is answered: the page is accumulated; upsertAccounts is entered when
\* the page has accounts
OverlapResponse(p) ==
    /\ sync[p].pc = "request"
    /\ Alone(p)
    /\ \E resp \in Responses(sync[p].itemId, sync[p].cursor) :
          LET pass == [sync[p] EXCEPT
                         !.allAdded = @ \o resp.data.added,
                         !.allModified = @ \o resp.data.modified,
                         !.allRemoved = @ \o removedIds(resp.data.removed),
                         !.hasMore = resp.has_more,
                         !.cursor = resp.next_cursor,
                         !.page = resp.data,
                         !.pages = Append(@, resp.data)]
          IN  sync' = [sync EXCEPT ![p] =
                          IF Len(resp.data.accounts) > 0
                          THEN beginTransaction([pass EXCEPT !.pc = "accounts"])
                          ELSE [pass EXCEPT !.pc = "paged"]]
    /\ UNCHANGED <<db, now, last>>

\* the request fails: the catch block throws SyncError
OverlapRequestFails(p) ==
    /\ sync[p].pc = "request"
    /\ Alone(p)
    /\ sync' = [sync EXCEPT ![p] = [@ EXCEPT !.pc = "failed"]]
    /\ last' = [Did("syncItem", FALSE) EXCEPT !.item = sync[p].itemId,
                                              !.why = "page", !.error = "SyncError"]
    /\ UNCHANGED <<db, now>>

\* upsertAccounts runs its statements and returns or throws
OverlapAccounts(p) ==
    /\ sync[p].pc = "accounts"
    /\ LET r == onPage(db, sync[p].itemId, sync[p].page, now)
       IN  /\ db' = r.db
           /\ sync' = [sync EXCEPT ![p] =
                          endTransaction([@ EXCEPT !.pc = IF r.ok THEN "paged"
                                                          ELSE "failed"])]
           /\ last' = IF r.ok THEN last
                      ELSE [Did("syncItem", FALSE) EXCEPT
                              !.item = sync[p].itemId, !.why = "accounts",
                              !.error = "SyncError"]
    /\ UNCHANGED now

\* while (hasMore): the next request, or the final transaction is entered
OverlapLoop(p) ==
    /\ sync[p].pc = "paged"
    /\ sync' = [sync EXCEPT ![p] =
                  IF sync[p].hasMore THEN [@ EXCEPT !.pc = "request"]
                  ELSE beginTransaction([@ EXCEPT !.pc = "write"])]
    /\ UNCHANGED <<db, now, last>>

\* the final transaction runs its statements and returns or throws
OverlapWrite(p) ==
    /\ sync[p].pc = "write"
    /\ \E failAt \in {0, 4} :
          LET r == commit(db, sync[p], now, failAt)
          IN  /\ db' = r.db
              /\ sync' = [sync EXCEPT ![p] =
                             endTransaction(
                                 [@ EXCEPT !.pc = IF r.ok THEN "done" ELSE "failed",
                                           !.order = IF r.ok THEN Written + 1 ELSE 0])]
              /\ last' = [Did("syncItem", r.ok) EXCEPT
                            !.item = sync[p].itemId, !.ret = sync[p].cursor,
                            !.why = IF r.ok THEN "" ELSE "commit",
                            !.error = IF r.ok THEN "" ELSE thrownAs("commit")]
    /\ UNCHANGED now

OverlapNext ==
    \E p \in Passes :
        \/ OverlapBegin(p)
        \/ OverlapResponse(p)
        \/ OverlapRequestFails(p)
        \/ OverlapAccounts(p)
        \/ OverlapLoop(p)
        \/ OverlapWrite(p)

\* cashflow_sync calls that come in while an earlier one awaits the upstream feed
SpecOverlap == OverlapInit /\ [][OverlapNext]_vars

\* ------------------------------------------------------------------ one call after another

\* the call is over: the next cashflow_sync call comes in
PassAgain ==
    /\ sync[1].pc \in {"done", "failed"}
    /\ now < MaxSyncs
    /\ sync' = [sync EXCEPT ![1] = NoPass]
    /\ UNCHANGED <<db, now, last>>

\* a tag is set or cleared by hand between two calls or while one awaits the feed
PassUpdateTransactionTag ==
    /\ AtAwait(sync[1])
    /\ \E r \in db.transactions, tag \in {<<"x">>, Null} :
          /\ r.tag # tag
          /\ db' = updateTransactionTag(db, r.transaction_id, tag)
          /\ last' = Did("updateTransactionTag", TRUE)
    /\ UNCHANGED <<now, sync>>

PassNext ==
    \/ OverlapBegin(1)
    \/ OverlapResponse(1)
    \/ OverlapRequestFails(1)
    \/ OverlapAccounts(1)
    \/ OverlapLoop(1)
    \/ OverlapWrite(1)
    \/ PassAgain
    \/ PassUpdateTransactionTag

\* cashflow_sync calls that come in one after another
SpecPass == OverlapInit /\ [][PassNext]_vars

\* ------------------------------------------------------------------ claims: reconciliation

\* the position a request's cursor names
PositionOf(c) == IF c = Undefined THEN 0 ELSE c

\* the three effects of the final write of the pass whose locals are s, between the
\* stores d and e: the accumulated added and modified records are stored as mapped
\* (the one supplied last for an id winning), none of the removed ids is left,
\* every other row is as it was, and the item's cursor is s.cursor
C1_AllThree(d, e, s, ts) ==
    LET up == mapAll(s.allAdded \o s.allModified)
        upIds == {up[i].transaction_id : i \in 1..Len(up)}
        rem == Range(s.allRemoved)
    IN  /\ \A r \in e.transactions : r.transaction_id \notin rem
        /\ \A i \in 1..Len(up) :
              (/\ up[i].transaction_id \notin rem
               /\ ~\E j \in (i + 1)..Len(up) :
                      up[j].transaction_id = up[i].transaction_id)
              => \E r \in e.transactions : [x \in DOMAIN up[i] |-> r[x]] = up[i]
        /\ \A r \in d.transactions :
              r.transaction_id \notin (upIds \cup rem) => r \in e.transactions
        /\ \A r \in e.transactions :
              r.transaction_id \in upIds \/ r \in d.transactions
        /\ getSyncState(e, s.itemId) =
              {[item_id |-> s.itemId, cursor |-> s.cursor, last_synced_at |-> ts]}
        /\ \A x \in e.sync_state : x.item_id # s.itemId => x \in d.sync_state

\* C1: the final write of syncItem leaves either all three effects or the database
\* exactly as it was, and it is the latter whenever the write threw, whichever of
\* its statements failed.
C1_Commit_Step ==
    (sync.pc = "commit" /\ sync'.pc # "commit") =>
        /\ db' = db \/ C1_AllThree(db, db', sync, now)
        /\ last'.why = "commit" => db' = db
        /\ last'.why # "commit" => C1_AllThree(db, db', sync, now)

C1_AtomicCommit == [][C1_Commit_Step]_vars

\* a final write threw after statements of it had changed rows
C1_Witness ==
    last.op = "syncAll" /\ ~last.ok /\ last.why = "commit" /\ last.undone

\* C2: no step of the page loop changes the transactions or the sync_state table,
\* and when a page request fails both are as they were when the pass began.
C2_PageFailure_Step ==
    /\ sync.pc = "page" =>
          /\ db'.transactions = db.transactions
          /\ db'.sync_state = db.sync_state
    /\ (sync.pc = "page" /\ last'.why = "page" /\ sync'.pc = "idle") =>
          /\ db'.transactions = sync.start.transactions
          /\ db'.sync_state = sync.start.sync_state

C2_PageFailureWritesNothing == [][C2_PageFailure_Step]_vars

\* a page request failed after a page had been fetched, over a ledger that holds
\* transactions and a cursor
C2_Witness ==
    /\ last.op = "syncAll" /\ ~last.ok /\ last.why = "page" /\ last.n > 0
    /\ db.transactions # {}
    /\ getSyncState(db, last.item) # {}

\* C3: the first request of a pass carries the item's stored cursor (none when no
\* row is stored or the cursor is empty); a pass that throws leaves the stored
\* cursors as they are; and a pass that commits has requested every position from
\* the stored cursor up to the cursor it stores.
C3_Resume_Step ==
    /\ (sync.pc = "item" /\ sync'.pc = "page") =>
          LET stored == {x \in db.sync_state : x.item_id = sync'.itemId}
          IN  /\ stored = {} => sync'.asked = <<Undefined>>
              /\ \A x \in stored :
                    sync'.asked = <<IF x.cursor = 0 THEN Undefined ELSE x.cursor>>
    /\ (sync.pc \in {"page", "commit"} /\ last'.op = "syncAll" /\ ~last'.ok) =>
          db'.sync_state = db.sync_state
    /\ (sync.pc = "commit" /\ sync'.pc # "commit" /\ last'.why # "commit") =>
          LET old == loadCursor(sync.start, sync.itemId)
              new == loadCursor(db', sync.itemId)
          IN  \A p \in old..(new - 1) :
                  \E k \in 1..Len(sync.asked) : PositionOf(sync.asked[k]) = p

C3_ResumeFromPersistedCursor == [][C3_Resume_Step]_vars

\* a pass has begun from a stored, non-empty cursor right after the syncAll before
\* it failed on the same item
C3_Witness ==
    /\ sync.pc = "page" /\ Len(sync.asked) = 1 /\ sync.asked[1] > 0
    /\ last.op = "syncAll" /\ ~last.ok /\ last.item = sync.itemId

\* C17: every failure raised while one item is reconciled, be it a failed page
\* request, a failed account upsert or a failed final write, reaches the caller
\* as a SyncError for that item.
C17_AlwaysSyncError ==
    (last.op = "syncAll" /\ ~last.ok) =>
        last.error = "SyncError" /\ last.item \in Range(ConfigItems)

\* C4: when syncAll has ended with the reconciliation of one item failed, every
\* configured item after that one was reconciled in the same invocation.
C4_OtherItemsContinue ==
    (last.op = "syncAll" /\ ~last.ok) =>
        \A k \in 1..Len(ConfigItems) :
            (\E j \in 1..(k - 1) : ConfigItems[j] = last.item)
            => ConfigItems[k] \in last.ids

\* ------------------------------------------------------------------ claims: the store
\* C11: the full-text index holds exactly one entry per stored transaction, with
\* the row's current name, merchant_name, category and tag, and nothing else: no
\* entry of a deleted row, of a row's earlier values, or of a batch rolled back.
C11_FtsInSync ==
    /\ db.transactions_fts = SetToBag({ftsEntry(r) : r \in db.transactions})
    /\ BagCardinality(db.transactions_fts) = Cardinality(db.transactions)

\* a batch that had changed rows was rolled back over a ledger holding a tagged row
C11_Witness ==
    /\ last.op = "upsertTransactions" /\ ~last.ok /\ last.undone
    /\ \E r \in db.transactions : r.tag # Null /\ r.category # Null


\* C8 as stated: after an upsert that succeeded, every id of the list has exactly one
\* row, carrying the values the list supplied last for it (item_id included), and
\* the table has one row per id it had or was given.
C8_Original_Step ==
    /\ (last'.op = "upsertAccounts" /\ last'.ok) =>
          /\ \A a \in last'.rows :
                LET got == {r \in db'.accounts : r.account_id = a.account_id}
                IN  /\ Cardinality(got) = 1
                    /\ \A r \in got :
                          /\ r.item_id = a.item_id /\ r.name = a.name
                          /\ r.mask = a.mask
                          /\ r.current_balance = a.current_balance
          /\ Cardinality(db'.accounts) =
                Cardinality(AccountIdsOf(db) \cup {a.account_id : a \in last'.rows})
    /\ (last'.op = "upsertTransactions" /\ last'.ok) =>
          /\ \A t \in last'.rows :
                LET got == {r \in db'.transactions : r.transaction_id = t.transaction_id}
                IN  /\ Cardinality(got) = 1
                    /\ \A r \in got : [x \in DOMAIN t |-> r[x]] = t
          /\ Cardinality(db'.transactions) =
                Cardinality({r.transaction_id : r \in db.transactions}
                            \cup {t.transaction_id : t \in last'.rows})

C8_Original == [][C8_Original_Step]_vars

\* C8 as amended: the same, except that the row of an account that was already
\* stored keeps the item_id it had; every other supplied column carries the value
\* supplied last.
C8_Amended_Step ==
    /\ (last'.op = "upsertAccounts" /\ last'.ok) =>
          /\ \A a \in last'.rows :
                LET got == {r \in db'.accounts : r.account_id = a.account_id}
                    had == {r \in db.accounts : r.account_id = a.account_id}
                IN  /\ Cardinality(got) = 1
                    /\ \A r \in got :
                          /\ r.name = a.name /\ r.mask = a.mask
                          /\ r.current_balance = a.current_balance
                          /\ \A h \in had : r.item_id = h.item_id
          /\ Cardinality(db'.accounts) =
                Cardinality(AccountIdsOf(db) \cup {a.account_id : a \in last'.rows})
    /\ (last'.op = "upsertTransactions" /\ last'.ok) =>
          /\ \A t \in last'.rows :
                LET got == {r \in db'.transactions : r.transaction_id = t.transaction_id}
                IN  /\ Cardinality(got) = 1
                    /\ \A r \in got : [x \in DOMAIN t |-> r[x]] = t
          /\ Cardinality(db'.transactions) =
                Cardinality({r.transaction_id : r \in db.transactions}
                            \cup {t.transaction_id : t \in last'.rows})

C8_UpsertIdempotence == [][C8_Amended_Step]_vars

\* an upsert of an account that was stored under another item has succeeded
C8_Witness ==
    /\ last.op = "upsertAccounts" /\ last.ok /\ last.n > 0
    /\ \E a \in last.rows, r \in db.accounts :
          r.account_id = a.account_id /\ r.item_id # a.item_id

\* C9: an upsertAccounts or upsertTransactions call that throws leaves the whole
\* database as it was before the call: no row of the batch is visible.
C9_AllOrNothing ==
    [][(last'.op \in {"upsertAccounts", "upsertTransactions"} /\ ~last'.ok)
          => db' = db]_vars

\* an upsertTransactions call threw after statements of its batch had run
C9_Witness ==
    last.op = "upsertTransactions" /\ ~last.ok /\ last.undone

\* C10: after the unlink command the item has no account, no transaction of one of
\* its accounts and no sync_state row; removeAccountsByItem, run after
\* removeTransactionsByAccount, is never refused by the foreign key.
C10_CascadingUnlink ==
    last.op = "unlink" =>
        /\ last.ok
        /\ ~\E a \in db.accounts : a.item_id = last.item
        /\ ~\E t \in db.transactions : t.account_id \in last.ids
        /\ getSyncState(db, last.item) = {}

\* an unlink removed two accounts and at least one transaction
C10_Witness ==
    last.op = "unlink" /\ last.ok /\ last.n > 0 /\ Cardinality(last.ids) > 1

\* ------------------------------------------------------------------ claims: classification

TagOf(d, id) == {r.tag : r \in {x \in d.transactions : x.transaction_id = id}}

\* C5: an applyTagRules call leaves every row whose tag is non-null exactly as it
\* was, whatever the rules are; a non-null tag of a row changes only in a direct
\* updateTransactionTag, and the row disappears only in a removeTransactions.
C5_TagOnce_Step ==
    /\ last'.op = "applyTagRules" =>
          \A r \in db.transactions : r.tag # Null => r \in db'.transactions
    /\ \A r \in db.transactions :
          (r.tag # Null /\ TagOf(db', r.transaction_id) # {r.tag}) =>
              \/ last'.op = "updateTransactionTag"
              \/ last'.op = "removeTransactions"
                    /\ TagOf(db', r.transaction_id) = {}

C5_TagOnce == [][C5_TagOnce_Step]_vars

\* applyTagRules has run over a row whose tag is not the tag the rules now give it
C5_Witness ==
    /\ last.op = "applyTagRules"
    /\ \E r \in db.transactions :
          LET i == firstMatch(getTagRules(db), haystackOf(r))
          IN  r.tag \notin {Null, <<"m">>} /\ i # 0 /\ getTagRules(db)[i].tag # r.tag

\* the haystack as the claim words it: merchant name and name joined by one space,
\* a field that is null or empty left out
C6_Haystack(r) ==
    IF Truthy(r.merchant_name) /\ Truthy(r.name)
    THEN r.merchant_name \o <<" ">> \o r.name
    ELSE IF Truthy(r.merchant_name) THEN r.merchant_name
    ELSE IF Truthy(r.name) THEN r.name
    ELSE <<>>

\* C6: applyTagRules gives each untagged row the tag of the matching rule that has
\* no matching rule before it (higher priority, or equal priority and lower id),
\* and leaves a row no rule matches untagged.
C6_FirstMatch_Step ==
    last'.op = "applyTagRules" =>
        \A r \in db.transactions : r.tag = Null =>
            LET matching == {q \in db.tag_rules :
                                regexTest(q.pattern, C6_Haystack(r))}
                winners == {w \in matching : \A q \in matching \ {w} :
                                \/ w.priority > q.priority
                                \/ w.priority = q.priority /\ w.id < q.id}
            IN  IF matching = {}
                THEN r \in db'.transactions
                ELSE /\ Cardinality(winners) = 1
                     /\ \A w \in winners : [r EXCEPT !.tag = w.tag] \in db'.transactions

C6_FirstMatch == [][C6_FirstMatch_Step]_vars

\* applyTagRules tagged a row that two rules of equal priority and different tags
\* match, through a haystack that joins merchant name and name
C6_Witness ==
    /\ last.op = "applyTagRules" /\ last.ret > 0
    /\ \E r \in db.transactions, p, q \in db.tag_rules :
          /\ regexTest(p.pattern, haystackOf(r)) /\ regexTest(q.pattern, haystackOf(r))
          /\ p.priority = q.priority /\ p.id < q.id /\ p.tag # q.tag
          /\ r.tag = p.tag
          /\ Truthy(r.merchant_name)

\* C7: applyTagRules returns the number of rows whose tag it took from null to
\* non-null, and a call that follows another directly returns 0 and changes nothing.
C7_CountIdempotent_Step ==
    /\ last'.op = "applyTagRules" =>
          last'.ret = Cardinality({r \in db.transactions :
                          r.tag = Null /\ r \notin db'.transactions})
    /\ (last'.op = "applyTagRules" /\ last'.again) => (last'.ret = 0 /\ db' = db)

C7_CountIdempotent == [][C7_CountIdempotent_Step]_vars

\* applyTagRules ran twice in a row over a table with a row it tagged and a row no
\* rule matches
C7_Witness ==
    /\ last.op = "applyTagRules" /\ last.again
    /\ \E r \in db.transactions : r.tag \notin {Null, <<"m">>}
    /\ \E r \in db.transactions :
          r.tag = Null /\ firstMatch(getTagRules(db), haystackOf(r)) = 0
    /\ db.tag_rules # {}

\* C16: a pattern that does not compile is rejected with a ConfigError before
\* storage is touched: addTagRule leaves the tag_rules table (and the rest of the
\* database) as it is, and grepTransactions never calls getTransactions.
C16_FailFast_Step ==
    /\ (last'.op = "addTagRule" /\ ~Compiles(last'.pattern)) =>
          /\ ~last'.ok /\ last'.error = "ConfigError"
          /\ db'.tag_rules = db.tag_rules
          /\ db' = db
    /\ (last'.op = "grepTransactions" /\ ~Compiles(last'.pattern)) =>
          /\ ~last'.ok /\ last'.error = "ConfigError"
          /\ last'.n = 0 /\ last'.out = <<>>
          /\ db' = db

C16_BrokenPatternFailsFast == [][C16_FailFast_Step]_vars

\* addTagRule has thrown on a broken pattern, over a ledger with a rule and a
\* transaction stored
C16_Witness ==
    /\ last.op = "addTagRule" /\ ~last.ok /\ ~Compiles(last.pattern)
    /\ db.tag_rules # {} /\ db.transactions # {}

\* ------------------------------------------------------------------ claims: queries

\* v lies between the bounds that are supplied, both included
C12_Between(lo, v, hi) ==
    /\ lo = <<>> \/ lo[1] <= v
    /\ hi = <<>> \/ v <= hi[1]

\* the row passes every filter of f that is supplied
C12_Satisfies(f, r) ==
    /\ C12_Between(f.from, r.date, f.to)
    /\ C12_Between(f.min, r.amount, f.max)
    /\ f.account = <<>> \/ f.account = <<r.account_id>>
    /\ f.pending = <<>> \/ f.pending = <<r.pending = 1>>
    /\ f.tag = <<>> \/ f.tag = <<IF r.tag = Null THEN r.category ELSE r.tag>>

C13_LimitApplied ==
    (last.op = "getTransactions" /\ last.filters.limit # <<>>) =>
        LET limit == last.filters.limit[1]
            want == {r \in db.transactions : C12_Satisfies(last.filters, r)}
        IN  /\ Len(last.out) <= limit
            /\ \E s \in orderByDateDesc(want) :
                  \A i \in 1..Len(s) : i <= limit => (i <= Len(last.out) /\ last.out[i] = s[i])

\* ------------------------------------------------------------------ claims: budgets

\* the month's outflow of the transactions whose resolved tag is the given one
C14_Spent(tag, month) ==
    sumAmount({r \in db.transactions :
                  /\ r.amount > 0
                  /\ r.date \div 10 = month
                  /\ tag = (IF r.tag # Null THEN r.tag
                            ELSE IF r.category # Null THEN r.category
                            ELSE Uncategorized)})

C14_Max0(x) == IF x > 0 THEN x ELSE 0

\* c is x to the nearer cent, a half going up
C14_ToCents(c, x) == c % 10 = 0 /\ x - 5 < c /\ c <= x + 5

\* there is one status per configured budget
C14_OnePerBudget ==
    /\ Len(last.out) = Cardinality(db.budgets)
    /\ \A b \in db.budgets : \E i \in 1..Len(last.out) :
          /\ last.out[i].tag = b.tag
          /\ last.out[i].monthly_limit = b.monthly_limit

\* C14 as stated: the statuses carry the exact values.
C14_Original ==
    last.op = "getBudgetStatuses" =>
        /\ C14_OnePerBudget
        /\ \A i \in 1..Len(last.out) :
              LET st == last.out[i]
                  limit == st.monthly_limit
                  spent == C14_Spent(st.tag, last.month)
              IN  /\ st.remaining = C14_Max0(limit - spent)
                  /\ limit = 0 => st.percent_used = 0
                  /\ limit # 0 => st.percent_used * limit = 1000 * spent
                  /\ st.over_budget = (spent > limit)

\* C14 (amended): for every configured budget and month, getBudgetStatuses
\* reports spent and remaining = max(0, limit - spent) rounded to cents,
\* percent_used = spent / limit rounded to three decimals (0 when the limit is
\* not positive) and over_budget = (spent > limit), where spent is the month's
\* outflow total of the budget's tag under the resolved-tag aggregation.
C14_BudgetMath ==
    last.op = "getBudgetStatuses" =>
        /\ C14_OnePerBudget
        /\ \A i \in 1..Len(last.out) :
              LET st == last.out[i]
                  limit == st.monthly_limit
                  spent == C14_Spent(st.tag, last.month)
              IN  /\ C14_ToCents(st.spent, spent)
                  /\ C14_ToCents(st.remaining, C14_Max0(limit - spent))
                  /\ limit <= 0 => st.percent_used = 0
                  /\ limit > 0 =>
                        /\ 2 * (st.percent_used * limit - 1000 * spent) > -limit
                        /\ 2 * (st.percent_used * limit - 1000 * spent) <= limit
                  /\ st.over_budget = (spent > limit)

\* statuses of two budgets, one of them with spend that is no whole number of
\* thousandths of its limit and a remainder below half a cent
C14_Witness ==
    /\ last.op = "getBudgetStatuses" /\ Len(last.out) = 2
    /\ \E i \in 1..Len(last.out) :
          LET st == last.out[i]
              spent == C14_Spent(st.tag, last.month)
          IN  /\ spent > 0 /\ st.monthly_limit > spent
              /\ st.percent_used * st.monthly_limit # 1000 * spent
              /\ st.remaining = 0

\* C15: checkAlerts(month) returns exactly the statuses of getBudgetStatuses(month)
\* whose percent_used is at least their alert_threshold, each once.
C15_AlertsAtThreshold ==
    last.op = "checkAlerts" =>
        LET statuses == getBudgetStatuses(db, last.month, last.month)
        IN  /\ \A i \in 1..Len(last.out) :
                  /\ last.out[i] \in Range(statuses)
                  /\ last.out[i].percent_used >= last.out[i].alert_threshold
                  /\ \A j \in 1..Len(last.out) : last.out[j] = last.out[i] => j = i
            /\ \A k \in 1..Len(statuses) :
                  statuses[k].percent_used >= statuses[k].alert_threshold
                  => statuses[k] \in Range(last.out)

\* of two budgets, checkAlerts returned the one whose percent_used equals its
\* threshold and left the other out
C15_Witness ==
    /\ last.op = "checkAlerts" /\ Len(last.out) = 1
    /\ last.out[1].percent_used = last.out[1].alert_threshold
    /\ Cardinality(db.budgets) = 2

\* the merchant name, when the row has one, a space and the name
C19_Concatenation(t) ==
    IF t.merchant_name = Null \/ t.merchant_name = <<>> THEN t.name
    ELSE t.merchant_name \o <<" ">> \o t.name

\* the pattern's symbols occur in the row's concatenation, case ignored
C19_Matches(pattern, t) ==
    LET hay == C19_Concatenation(t)
    IN  \E from \in 1..Len(hay) :
            /\ from + Len(pattern) - 1 <= Len(hay)
            /\ \A k \in 1..Len(pattern) :
                  Lower(hay[from + k - 1]) = Lower(pattern[k])

\* C19: grepTransactions(pattern, filters) returns the rows of one result of
\* getTransactions(filters), limit included, that match the pattern, all of them
\* and in that result's order.
C19_GrepAfterFilters ==
    (last.op = "grepTransactions" /\ last.ok) =>
        \E res \in getTransactions(db, last.filters) :
            /\ \A i \in 1..Len(last.out) :
                  /\ C19_Matches(last.pattern, last.out[i])
                  /\ \E k \in 1..Len(res) : res[k] = last.out[i]
            /\ \A k \in 1..Len(res) :
                  C19_Matches(last.pattern, res[k])
                  => \E i \in 1..Len(last.out) : last.out[i] = res[k]
            /\ \A i, j \in 1..Len(last.out) :
                  i < j => \E k, l \in 1..Len(res) :
                              k < l /\ res[k] = last.out[i] /\ res[l] = last.out[j]

\* a grep with limit 1 returned nothing although a stored row matches: the limit
\* had cut the result before the pattern was tried
C19_Witness ==
    /\ last.op = "grepTransactions" /\ last.ok
    /\ last.filters.limit = <<1>> /\ last.out = <<>>
    /\ \E r \in db.transactions :
          C12_Satisfies(last.filters, r) /\ C19_Matches(last.pattern, r)

\* ------------------------------------------------------------------ claims: aggregation

\* the outflows of the range the last aggregation was asked for
C18_Outflows ==
    {r \in db.transactions :
        /\ r.amount > 0
        /\ IF last.op = "getSpendingByTagForMonth"
           THEN r.date \div 10 = last.month
           ELSE C12_Between(last.filters.from, r.date, last.filters.to)}

\* tag if set, else category, else "uncategorized"
C18_Bucket(r) ==
    IF r.tag # Null THEN r.tag ELSE IF r.category # Null THEN r.category
    ELSE Uncategorized

RECURSIVE C18_SumTotals(_)
C18_SumTotals(buckets) ==
    IF buckets = <<>> THEN 0 ELSE Head(buckets).total + C18_SumTotals(Tail(buckets))

\* C18: the spending-by-tag aggregations count every outflow of the range in
\* exactly one bucket, that of its resolved tag, count nothing else, and their
\* totals add up to the outflow of the range.
C18_SpendingByResolvedTag ==
    last.op \in {"getSpendingByTag", "getSpendingByTagForMonth"} =>
        /\ \A i, j \in 1..Len(last.out) :
              last.out[i].tag = last.out[j].tag => i = j
        /\ \A r \in C18_Outflows :
              \E i \in 1..Len(last.out) : last.out[i].tag = C18_Bucket(r)
        /\ \A i \in 1..Len(last.out) :
              LET rows == {r \in C18_Outflows : C18_Bucket(r) = last.out[i].tag}
              IN  /\ rows # {}
                  /\ last.out[i].total = sumAmount(rows)
                  /\ last.op = "getSpendingByTag" =>
                        last.out[i].count = Cardinality(rows)
        /\ C18_SumTotals(last.out) = sumAmount(C18_Outflows)

\* an aggregation returned the bucket of a tag that overrides a category and the
\* uncategorized one, over a ledger that also holds a row that is no outflow
C18_Witness ==
    /\ last.op = "getSpendingByTag"
    /\ \E r \in C18_Outflows : r.tag # Null /\ r.category # Null /\ r.category # r.tag
    /\ \E i \in 1..Len(last.out) : last.out[i].tag = Uncategorized
    /\ \E r \in db.transactions : r.amount <= 0

\* ------------------------------------------------------------------ claims: reports

\* C20: the trend of a burn report of fewer than 3 monthly buckets is "stable";
\* otherwise, with a, b, c the last 3 buckets, it is "increasing" when the average
\* of the deltas b - a and c - b is above 5% of the average of a, b and c,
\* "decreasing" when it is below minus that, and "stable" otherwise.
C20_BurnTrend ==
    last.op = "getBurnReport" =>
        LET n == Len(last.out)
        IN  IF n < 3 THEN last.trend = "stable"
            ELSE LET a == last.out[n - 2].total
                     b == last.out[n - 1].total
                     c == last.out[n].total
                     \* 600 times the average delta and 600 times 5% of the average
                     delta == 300 * ((b - a) + (c - b))
                     threshold == 10 * (a + b + c)
                 IN  /\ last.trend = "increasing" <=> delta > threshold
                     /\ last.trend = "decreasing" <=> delta < -threshold
                     /\ last.trend = "stable" <=>
                            (delta <= threshold /\ delta >= -threshold)

\* a report of four buckets rose over the last three while the first three fell
C20_Witness ==
    /\ last.op = "getBurnReport" /\ Len(last.out) = 4
    /\ last.trend = "increasing"
    /\ last.out[3].total < last.out[1].total
\* ------------------------------------------------------------------ claims: derived fields

\* C21 (as stated): the display name read for a stored transaction is its
\* merchant_name whenever that is not null, and its name otherwise.
C21_Original ==
    last.op = "displayName" =>
        \A i \in 1..Len(last.out) :
            \A r \in {x \in db.transactions :
                         x.transaction_id = last.out[i].transaction_id} :
                last.out[i].displayName =
                    IF r.merchant_name # Null THEN r.merchant_name ELSE r.name

\* C21 (amended): the display name read for a stored transaction is its
\* merchant_name whenever that is neither null nor the empty text, and its name
\* otherwise; every stored transaction is read.
C21_DisplayName ==
    last.op = "displayName" =>
        /\ {last.out[i].transaction_id : i \in 1..Len(last.out)} =
              {r.transaction_id : r \in db.transactions}
        /\ \A i \in 1..Len(last.out) :
              \A r \in {x \in db.transactions :
                           x.transaction_id = last.out[i].transaction_id} :
                  last.out[i].displayName =
                      IF r.merchant_name # Null /\ r.merchant_name # <<>>
                      THEN r.merchant_name ELSE r.name

\* a transaction whose merchant_name is the empty text has been read
C21_Witness ==
    /\ last.op = "displayName"
    /\ \E r \in db.transactions : r.merchant_name = <<>> /\ r.name # <<>>
    /\ \E r \in db.transactions : Truthy(r.merchant_name) /\ r.name # r.merchant_name
    /\ \E r \in db.transactions : r.merchant_name = Null

\* the entry i of the legacy category list, a missing entry being null
C22_Legacy(t, i) == IF Len(t.category) >= i THEN t.category[i] ELSE Null

\* a text that is neither null nor empty
C22_NonEmpty(s) == s # Null /\ s # <<>>

\* C22 (as stated): every mapped record has the merchant name as name when the
\* upstream record has one (and the raw name when not), the upstream amount, the
\* richer classification's primary/detailed value as category/subcategory when it
\* has one, else the first/second entry of the legacy list, else null, and
\* pending 1 or 0.
C22_Original ==
    last.op = "mapPlaidTransaction" =>
        \A i \in 1..Len(last.plaid) :
            LET t == last.plaid[i]
                m == last.out[i]
            IN  /\ m.name = IF t.merchant_name # Null THEN t.merchant_name ELSE t.name
                /\ m.amount = t.amount
                /\ m.category = IF t.pfc.primary # Null THEN t.pfc.primary
                                ELSE C22_Legacy(t, 1)
                /\ m.subcategory = IF t.pfc.detailed # Null THEN t.pfc.detailed
                                   ELSE C22_Legacy(t, 2)
                /\ m.pending = IF t.pending THEN 1 ELSE 0

\* C22 (amended): as stated, except that an empty merchant name counts as no
\* merchant name and an empty entry of the legacy list as no entry; an empty
\* value of the richer classification is still taken.
C22_FieldMapping ==
    last.op = "mapPlaidTransaction" =>
        /\ Len(last.out) = Len(last.plaid)
        /\ \A i \in 1..Len(last.plaid) :
              LET t == last.plaid[i]
                  m == last.out[i]
              IN  /\ m.transaction_id = t.transaction_id
                  /\ m.name = IF C22_NonEmpty(t.merchant_name)
                              THEN t.merchant_name ELSE t.name
                  /\ m.amount = t.amount
                  /\ m.category =
                        IF t.pfc.primary # Null THEN t.pfc.primary
                        ELSE IF C22_NonEmpty(C22_Legacy(t, 1)) THEN C22_Legacy(t, 1)
                        ELSE Null
                  /\ m.subcategory =
                        IF t.pfc.detailed # Null THEN t.pfc.detailed
                        ELSE IF C22_NonEmpty(C22_Legacy(t, 2)) THEN C22_Legacy(t, 2)
                        ELSE Null
                  /\ m.pending \in {0, 1}
                  /\ m.pending = 1 <=> t.pending

\* an inflow with an empty merchant name, no richer classification and a legacy
\* list has been mapped
C22_Witness ==
    /\ last.op = "mapPlaidTransaction"
    /\ \E i \in 1..Len(last.plaid) :
          /\ last.plaid[i].merchant_name = <<>>
          /\ last.plaid[i].amount < 0
          /\ last.plaid[i].pfc.primary = Null
          /\ last.plaid[i].category # <<>>
          /\ last.out[i].category # Null

\* ------------------------------------------------------------------ claims: overlapping passes

\* C23: while a page request of a syncItem call is in flight, the call holds no
\* storage transaction open: each transaction it begins (the account upserts of a
\* page, the final write) has ended before its next request goes out, and before
\* the call is over.
C23_NoTransactionAcrossAwait ==
    \A p \in Passes :
        /\ AtAwait(sync[p]) => sync[p].open = 0
        /\ sync[p].open \in {0, 1}
        /\ sync[p].open = 1 <=> sync[p].pc \in {"accounts", "write"}

\* a call awaits its second page after the accounts of its first were upserted
C23_Witness ==
    \E p \in Passes :
        /\ sync[p].pc = "request"
        /\ sync[p].cursor = 1
        /\ Len(sync[p].page.accounts) > 0
        /\ \E a \in db.accounts : a.account_id = sync[p].page.accounts[1].account_id

\* C27: when two syncItem calls for an item both read the stored cursor before
\* either writes, the cursor stored once both have written is not an earlier
\* position of the feed than the one the first to write stored.
C27_CursorNeverRegresses ==
    (\A p \in Passes : sync[p].pc = "done" /\ sync[p].seen = 0) =>
        \A p \in Passes :
            sync[p].order = 1 =>
                PositionOf(loadCursor(db, sync[p].itemId)) >= PositionOf(sync[p].cursor)

\* ------------------------------------------------------------------ claims: references

\* every transaction's account_id names a stored account
C24_Integrity(d) == \A t \in d.transactions : t.account_id \in AccountIdsOf(d)

C24_Step ==
    /\ C24_Integrity(db')
    /\ (last'.op = "upsertTransactions" /\ last'.ids \ AccountIdsOf(db) # {}) =>
          ~last'.ok /\ db' = db
    /\ (last'.op = "removeAccountsByItem"
          /\ \E t \in db.transactions : t.account_id \in last'.ids) =>
          ~last'.ok /\ db' = db

\* C24: in every state every transaction's account_id names a stored account; an
\* upsert of transactions that names an account not stored, and a removal of an
\* item's accounts while one of them owns a transaction, both throw and leave
\* every table as it was.
C24_ReferentialIntegrity == [][C24_Step]_vars

\* a removal of accounts that own a transaction was rejected, and before it an
\* upsert had stored that transaction
C24_Witness ==
    /\ last.op = "removeAccountsByItem" /\ ~last.ok
    /\ \E t \in db.transactions : t.account_id \in last.ids
    /\ Cardinality(db.accounts) = 2

\* an upsert of a batch whose later row names an account not stored was rolled back
C24_WitnessUpsert ==
    /\ last.op = "upsertTransactions" /\ ~last.ok /\ last.undone
    /\ last.ids \ AccountIdsOf(db) # {}

\* ------------------------------------------------------------------ claims: one pass

\* one page applied to the store d: its added records upserted, its modified
\* records upserted, its removed ids deleted
C25_ApplyPage(d, page) ==
    LET r1 == upsertTransactions(d, mapAll(page.added)).db
        r2 == upsertTransactions(r1, mapAll(page.modified)).db
    IN  removeTransactions(r2, removedIds(page.removed)).db

RECURSIVE C25_PageByPage(_, _)
\* the pages applied one after another, in the order they came
C25_PageByPage(d, pages) ==
    IF pages = <<>> THEN d
    ELSE C25_PageByPage(C25_ApplyPage(d, Head(pages)), Tail(pages))

C25_Step ==
    (sync[1].pc = "write" /\ sync'[1].pc = "done") =>
        db'.transactions = C25_PageByPage(db, sync[1].pages).transactions

\* C25: the transactions table a successful pass leaves is the table that applying
\* its pages one after another, in page order, gives; so a transaction removed
\* on an earlier page and added again on a later one is stored.
C25_InPageOrder == [][C25_Step]_vars

C26_Step ==
    (sync[1].pc = "write" /\ sync'[1].pc \in {"done", "failed"}) =>
        \A r \in db.transactions :
            LET got == {x \in db'.transactions : x.transaction_id = r.transaction_id}
            IN  /\ \A x \in got : x.tag = r.tag
                /\ got = {} => r.transaction_id \in Range(sync[1].allRemoved)

\* C26: the final write of a pass leaves the tag of every transaction that was
\* stored before it as it was, whether the pass added the transaction again or
\* modified it; the tag goes only with the row, when the pass removes the
\* transaction.
C26_TagSurvivesSync == [][C26_Step]_vars

\* a pass has modified a transaction that carried a tag, and the tag is still there
C26_Witness ==
    /\ sync[1].pc = "done"
    /\ \E i \in 1..Len(sync[1].allModified) :
          \E r \in db.transactions :
              /\ r.transaction_id = sync[1].allModified[i].transaction_id
              /\ r.amount = sync[1].allModified[i].amount
              /\ r.tag = <<"x">>

\* ------------------------------------------------------------------ claims: accounts

C28_Step ==
    (last'.op = "upsertAccounts" /\ last'.ok) =>
        \A h \in db.accounts :
            LET got == {r \in db'.accounts : r.account_id = h.account_id}
                given == {a \in last'.rows : a.account_id = h.account_id}
            IN  /\ Cardinality(got) = 1
                /\ \A r \in got :
                      /\ r.item_id = h.item_id
                      /\ given = {} => r = h
                      /\ \A a \in given :
                            /\ r.name = a.name /\ r.mask = a.mask
                            /\ r.current_balance = a.current_balance
                            /\ r.updated_at = now

\* C28: an upsertAccounts call that succeeds leaves every account that was
\* already stored under the item_id it had, whatever item_id the call supplies
\* for it, and gives it the name, mask, balance and timestamp of the call.
C28_ItemIdKept == [][C28_Step]_vars

\* an upsert has overwritten the balance of a stored account and supplied another
\* item_id for it
C28_Witness ==
    /\ last.op = "upsertAccounts" /\ last.ok /\ last.n > 0
    /\ \E a \in last.rows, r \in db.accounts :
          /\ r.account_id = a.account_id /\ r.item_id # a.item_id
          /\ r.current_balance = a.current_balance
    /\ Cardinality(db.accounts) = 2

\* ------------------------------------------------------------------ claims: alerts

\* C29: every status of the month that is over budget, of a budget whose
\* alert_threshold lies between 0 and 1, is among the statuses checkAlerts
\* returns for the month.
C29_OverBudgetAlerts ==
    last.op = "checkAlerts" =>
        LET statuses == getBudgetStatuses(db, last.month, last.month)
        IN  \A k \in 1..Len(statuses) :
                (/\ statuses[k].alert_threshold >= 0
                 /\ statuses[k].alert_threshold <= 1000
                 /\ statuses[k].over_budget)
                => statuses[k] \in Range(last.out)

\* ------------------------------------------------------------------ claims: a pass that fails

\* the account snapshots of the pages, each stored under the item
C30_SnapshotsStored(d, pass) ==
    \A i \in 1..Len(pass.pages) :
        \A j \in 1..Len(pass.pages[i].accounts) :
            LET a == pass.pages[i].accounts[j]
            IN  \E r \in d.accounts :
                    /\ r.account_id = a.account_id /\ r.item_id = pass.itemId
                    /\ r.name = a.name /\ r.mask = a.mask
                    /\ r.current_balance = a.current_balance

C30_Step ==
    /\ (sync[1].pc \in {"request", "accounts", "paged"} /\ sync'[1] # sync[1]) =>
          /\ db'.transactions = db.transactions
          /\ db'.sync_state = db.sync_state
    /\ (/\ sync[1].pc = "request" /\ sync'[1].pc = "failed"
        /\ Len(sync[1].pages) >= 1) =>
          C30_SnapshotsStored(db', sync[1])

\* C30: when a page request of a pass fails after one page or more came in, the
\* accounts of the pages that came in are stored, under the item of the pass,
\* as the pages gave them; up to there the pass has changed neither the
\* transactions nor the stored cursor.
C30_AccountsStayUpserted == [][C30_Step]_vars

\* a pass has failed on its second request: the account of its first page is
\* stored, the transaction that page added is not, and no cursor is
C30_Witness ==
    /\ sync[1].pc = "failed" /\ last.op = "syncItem" /\ last.why = "page"
    /\ Len(sync[1].pages) = 1 /\ Len(sync[1].pages[1].accounts) > 0
    /\ C30_SnapshotsStored(db, sync[1])
    /\ Len(sync[1].allAdded) > 0
    /\ db.transactions = {} /\ db.sync_state = {}

====
